---- MODULE Spec2Model ----
(***************************************************************************)
(* Field translation data (SVD and FFT) and the upward pass of the kernel  *)
(* independent FMM: src/field/src/field.rs,                                *)
(* src/fmm/src/field_translation/source.rs and src/bem/tests/fmm.rs.       *)
(*                                                                         *)
(* Matrices are modelled by their shapes <<rows, cols>> and by the blocks  *)
(* the code cuts out of them; floating point values are not modelled.      *)
(***************************************************************************)
EXTENDS Integers, Sequences, FiniteSets, Bags, TLC

\* ------------------------------------------------------------------ bounds
\* Largest expansion order tried for the FFT field translation.
MaxFftOrder == 2
\* Largest depth of the trees of the FMM loop.
MaxDepth == 2
\* Largest number of leaves of a uniform tree built in full.
MaxLeaves == 64
\* Largest number of calls of the same pass on the same data.
MaxCalls == 2
\* Largest expansion order tried for the surface and convolution grids.
MaxConvOrder == 4
\* Largest offset of the charges placed on the convolution grid.
MaxCharge == 1
\* Largest number of leaves of the trees whose index maps lack a key.
MaxLookupLeaves == 16
\* Largest level m2l_scale is called with.
MaxScaleLevel == 63
\* Largest number of points handed to the tree.
MaxPoints == 3
\* Largest leaf key (Morton index at the leaf level) a point falls in.
MaxPointKey == 2
\* Largest expansion order tried for the SVD field translation.
MaxSvdOrder == 4
\* Largest requested rank Some(k) tried for the SVD field translation.
MaxRank == 58

\* --------------------------------------------------------- program constants
\* result.k = 50 when no rank is given.
DefaultRank == 50
\* Number of unique transfer vectors returned by compute_transfer_vectors().
NTransferVectors == 316
\* constants::P2M_MAX_CHUNK_SIZE and constants::M2M_MAX_CHUNK_SIZE: the largest
\* number of boxes a chunk of the parallel loops holds.
P2M_MAX_CHUNK_SIZE == 4
M2M_MAX_CHUNK_SIZE == 4
\* Number of workers of the thread pool.
NumThreads == 2

VARIABLES
    order,             \* expansion order handed to the constructor
    k_arg,             \* the Option<usize> rank argument of new
    k,                 \* result.k / self.k
    transfer_vectors,  \* self.transfer_vectors.len()
    svd_pc,            \* position inside SvdFieldTranslationKiFmm::new
    se2tc_fat,         \* shape of se2tc_fat
    se2tc_thin,        \* shape of se2tc_thin
    sigma_mat,         \* shape of sigma_mat
    u,                 \* shape of the truncated u
    vt,                \* shape of the truncated vt
    s_block,           \* shape of s_block
    c,                 \* shape of c
    c_blocks,          \* c_blocks[i+1]: the block of c written for transfer vector i
    operator_data,     \* result.operator_data (shapes of u, st_block, c)
    fft_pc,            \* position inside FftFieldTranslationKiFmm::compute_m2l_operators
    size_real,         \* number of Fourier coefficients of one padded kernel
    key,               \* the level 3 key at the centre of the domain
    siblings,          \* key.siblings()
    halo,              \* key.parent().neighbors()
    halo_children,     \* the children of each halo box
    sources,           \* sources[i]: the 64 source boxes of halo position i
    targets,           \* targets[i]: the 64 target boxes of halo position i
    n_source_equivalent_surface,
    n_target_check_surface,
    kernel_data_vec,   \* kernel_data_vec[i]: the 64 transformed kernels of halo position i
    kernel_data,       \* kernel_data[i]: the kernels of halo position i, flattened
    kernel_data_rearranged,
    fft_transfer_vectors, \* the local transfer_vectors of the FFT precomputation
    fft_i,             \* index of the loop over halo positions in progress
    depth,             \* depth of the tree
    leaves,            \* tree.get_all_leaves(): the leaf keys, sorted
    keys,              \* the keys of the tree, by level and sorted in each level
    charge_index_pointer, \* per leaf, the half-open range of its points
    check_potentials,  \* p2m: the check potential of each leaf
    multipoles,        \* the multipole of each key, at index key_to_index
    fmm_pc,            \* position inside the FMM loop
    level,             \* level of the pass in progress
    chunk_size,        \* chunk size of the parallel loop in progress
    task_count,        \* number of items of the parallel loop in progress
    task_next,         \* first item of the parallel loop no worker has taken
    running,           \* the items the workers hold: taken, not yet written
    parent_targets,    \* m2m: the sorted parents of the keys of the level
    pass_log,          \* the passes begun, in order
    charges,           \* the charge of each point, in the order of the tree
    kernel_calls,      \* p2m: the kernel evaluations made, with the points they cover
    multipoles_before, \* the multipoles when the pass in progress was called
    write_count,       \* per slot of multipoles, the items of the pass that added to it
    coordinates,       \* per point, the leaf its coordinates lie in, in the order of the tree
    locals,            \* per key, the number of downward passes that added to its local expansion
    level_index_pointer, \* the keys that have an entry in the index map of their level
    key_to_index,      \* the keys that have an entry in tree.key_to_index
    npoints,           \* number of points handed to the tree
    point_key,         \* leaf key of each point, in the caller's order
    global_indices,    \* tree.global_indices
    potentials,        \* datatree.potentials
    fmm_result,        \* the result vector filled from the potentials
    nwritten,          \* number of writes to each entry of the result
    res_pc,            \* position inside the test
    res_i,             \* index of the loop over global_indices
    scale_level,       \* m2l_scale: the level it is called with
    scale_pc,          \* m2l_scale: position of the call
    scale_value,       \* m2l_scale: the value returned
    map_pc,            \* position inside new / compute_surf_to_conv_map / compute_signal
    map_t,             \* compute_surf_to_conv_map: iterations of the loops done
    surf_index,        \* compute_surf_to_conv_map: the surface grid index
    surf_to_conv_map,  \* surface index -> convolution index
    conv_to_surf_map,  \* convolution index -> surface index
    signal_charges,    \* compute_signal: the charges it is called with
    signal             \* compute_signal: the grid returned, by convolution index

svdVars == << k_arg, k, transfer_vectors, svd_pc, se2tc_fat, se2tc_thin,
              sigma_mat, u, vt, s_block, c, c_blocks, operator_data >>

fftVars == << fft_pc, size_real, key, siblings, halo, halo_children, sources,
              targets, n_source_equivalent_surface, n_target_check_surface,
              kernel_data_vec, kernel_data, kernel_data_rearranged,
              fft_transfer_vectors, fft_i >>

fmmVars == << depth, leaves, keys, charge_index_pointer, check_potentials,
              multipoles, fmm_pc, level, chunk_size, task_count, task_next,
              running, parent_targets, pass_log, charges, kernel_calls,
              multipoles_before, write_count, coordinates, locals,
              level_index_pointer, key_to_index >>

resVars == << npoints, point_key, global_indices, potentials, fmm_result,
              nwritten, res_pc, res_i >>

scaleVars == << scale_level, scale_pc, scale_value >>

mapVars == << map_pc, map_t, surf_index, surf_to_conv_map, conv_to_surf_map,
              signal_charges, signal >>

vars == << order, svdVars, fftVars, fmmVars, resVars, scaleVars, mapVars >>

\* ------------------------------------------------------------ Option<usize>
None == [some |-> FALSE, val |-> 0]
Some(n) == [some |-> TRUE, val |-> n]

NoShape == << 0, 0 >>

\* An f64 that is a power of two, 2^e, held by its exponent; no value yet.
Pow2(e) == [pow2 |-> TRUE, exp |-> e]
NoValue == [pow2 |-> FALSE, exp |-> 0]
Min(a, b) == IF a <= b THEN a ELSE b

\* ------------------------------------------------- SVD field translation
\* fn ncoeffs(&self, order) of the SVD provider.
SvdNcoeffs(o) == 6 * ((o - 1) * (o - 1)) + 2

\* SvdM2lOperatorData::default(): empty matrices.
SvdM2lOperatorDataDefault == [u |-> NoShape, st_block |-> NoShape, c |-> NoShape]

\* new without the comparison against ncoeffs.
SvdRankUnclamped(arg, ncoeffs) ==
    IF arg.some THEN arg.val ELSE DefaultRank

\* new taking the full column rank when no rank is given.
SvdRankDefaultFull(arg, ncoeffs) ==
    IF arg.some
    THEN IF arg.val <= ncoeffs THEN arg.val ELSE ncoeffs
    ELSE ncoeffs

\* The rank chosen by new from its argument.
SvdRank(arg, ncoeffs) ==
    IF arg.some
    THEN IF arg.val <= ncoeffs THEN arg.val ELSE ncoeffs
    ELSE DefaultRank

\* matrix.block(top_left, dim) is inside a matrix of the given shape.
BlockInside(shape, top_left, dim) ==
    /\ top_left[1] + dim[1] <= shape[1]
    /\ top_left[2] + dim[2] <= shape[2]

\* Shapes returned by svd(Mode::All, Mode::Slim) of an (m, n) matrix.
SvdAllSlim(shape) ==
    [sigma |-> Min(shape[1], shape[2]),
     u     |-> << shape[1], shape[1] >>,
     vt    |-> << Min(shape[1], shape[2]), shape[2] >>]

\* Shapes returned by svd(Mode::Slim, Mode::All) of an (m, n) matrix.
SvdSlimAll(shape) ==
    [sigma |-> Min(shape[1], shape[2]),
     u     |-> << shape[1], Min(shape[1], shape[2]) >>,
     vt    |-> << shape[2], shape[2] >>]

Transpose(shape) == << shape[2], shape[1] >>

\* Shape of a.dot(b); the inner dimensions must agree.
DotOk(a, b) == a[2] = b[1]
Dot(a, b) == << a[1], b[2] >>

\* The FFT field translation before it is constructed.
FftIdle ==
    /\ fft_pc = "idle"
    /\ size_real = 0
    /\ key = << >>
    /\ siblings = << >>
    /\ halo = << >>
    /\ halo_children = << >>
    /\ sources = << >>
    /\ targets = << >>
    /\ n_source_equivalent_surface = 0
    /\ n_target_check_surface = 0
    /\ kernel_data_vec = << >>
    /\ kernel_data = << >>
    /\ kernel_data_rearranged = << >>
    /\ fft_transfer_vectors = << >>
    /\ fft_i = 0

\* The FMM data tree before it is built.
FmmIdle ==
    /\ depth = 0
    /\ leaves = << >>
    /\ keys = << >>
    /\ charge_index_pointer = << >>
    /\ check_potentials = << >>
    /\ multipoles = << >>
    /\ fmm_pc = "idle"
    /\ level = 0
    /\ chunk_size = 0
    /\ task_count = 0
    /\ task_next = 0
    /\ running = {}
    /\ parent_targets = << >>
    /\ pass_log = << >>
    /\ charges = << >>
    /\ kernel_calls = {}
    /\ multipoles_before = << >>
    /\ write_count = << >>
    /\ coordinates = << >>
    /\ locals = << >>
    /\ level_index_pointer = {}
    /\ key_to_index = {}

\* The result vector before the test runs.
ResIdle ==
    /\ npoints = 0
    /\ point_key = << >>
    /\ global_indices = << >>
    /\ potentials = << >>
    /\ fmm_result = << >>
    /\ nwritten = << >>
    /\ res_pc = "idle"
    /\ res_i = 0

\* The index maps and the signal before the constructor runs.
MapIdle ==
    /\ map_pc = "idle"
    /\ map_t = 0
    /\ surf_index = 0
    /\ surf_to_conv_map = << >>
    /\ conv_to_surf_map = << >>
    /\ signal_charges = << >>
    /\ signal = << >>

\* m2l_scale before it is called.
ScaleIdle ==
    /\ scale_level = 0
    /\ scale_pc = "idle"
    /\ scale_value = NoValue

SvdOrders == 1 .. MaxSvdOrder
RankArgs == {None} \cup {Some(n) : n \in 0 .. MaxRank}

InitSvd ==
    /\ ScaleIdle
    /\ MapIdle
    /\ order \in SvdOrders
    /\ k_arg \in RankArgs
    /\ k = 0
    /\ transfer_vectors = 0
    /\ svd_pc = "start"
    /\ se2tc_fat = NoShape
    /\ se2tc_thin = NoShape
    /\ sigma_mat = NoShape
    /\ u = NoShape
    /\ vt = NoShape
    /\ s_block = NoShape
    /\ c = NoShape
    /\ c_blocks = << >>
    /\ operator_data = SvdM2lOperatorDataDefault
    /\ FftIdle
    /\ FmmIdle
    /\ ResIdle

\* new, up to the call of compute_m2l_operators: the rank and the transfer vectors.
SvdNew ==
    /\ svd_pc = "start"
    /\ k' = SvdRank(k_arg, SvdNcoeffs(order))
    /\ transfer_vectors' = NTransferVectors
    /\ svd_pc' = "new"
    /\ UNCHANGED << order, k_arg, se2tc_fat, se2tc_thin, sigma_mat, u, vt,
                    s_block, c, c_blocks, operator_data, fftVars, fmmVars, resVars, scaleVars, mapVars >>

\* compute_m2l_operators: allocation and assembly of the fat and thin matrices.
SvdAssemble ==
    /\ svd_pc = "new"
    /\ LET nrows == SvdNcoeffs(order)
           ncols == SvdNcoeffs(order)
           ntransfer_vectors == transfer_vectors
       IN /\ se2tc_fat' = << nrows, ncols * ntransfer_vectors >>
          /\ se2tc_thin' = << nrows * ntransfer_vectors, ncols >>
    /\ svd_pc' = "assembled"
    /\ UNCHANGED << order, k_arg, k, transfer_vectors, sigma_mat, u, vt,
                    s_block, c, c_blocks, operator_data, fftVars, fmmVars, resVars, scaleVars, mapVars >>

\* The truncation to self.k can be carried out: sigma[i] for i in 0..k and the
\* three blocks of extent k are in range.
TruncationInRange(rank, fat, thin) ==
    /\ rank <= SvdAllSlim(fat).sigma
    /\ BlockInside(SvdAllSlim(fat).u, << 0, 0 >>, << SvdAllSlim(fat).u[1], rank >>)
    /\ BlockInside(SvdAllSlim(fat).vt, << 0, 0 >>, << rank, SvdAllSlim(fat).vt[2] >>)
    /\ BlockInside(SvdSlimAll(thin).vt, << 0, 0 >>, << rank, SvdSlimAll(thin).vt[2] >>)

\* compute_m2l_operators: the two SVDs and the truncation to rank self.k.
SvdTruncate ==
    /\ svd_pc = "assembled"
    /\ IF TruncationInRange(k, se2tc_fat, se2tc_thin)
       THEN /\ sigma_mat' = << k, k >>
            /\ u' = << SvdAllSlim(se2tc_fat).u[1], k >>
            /\ vt' = << k, SvdAllSlim(se2tc_fat).vt[2] >>
            /\ s_block' = Transpose(<< k, SvdSlimAll(se2tc_thin).vt[2] >>)
            /\ c' = << k, k * transfer_vectors >>
            /\ svd_pc' = "truncated"
       ELSE /\ svd_pc' = "panic"
            /\ UNCHANGED << sigma_mat, u, vt, s_block, c >>
    /\ UNCHANGED << order, k_arg, k, transfer_vectors, se2tc_fat, se2tc_thin,
                    c_blocks, operator_data, fftVars, fmmVars, resVars, scaleVars, mapVars >>

\* The block of c placed at column i instead of column i * k.
CBlockUnscaled(i, rank) == [top_left |-> << 0, i >>, dim |-> << rank, rank >>]

\* The block of c written in iteration i of the loop over the transfer vectors.
CBlock(i, rank) == [top_left |-> << 0, i * rank >>, dim |-> << rank, rank >>]

\* The block of vt read in iteration i of the loop over the transfer vectors.
VtBlock(i, rank, ncols) == [top_left |-> << 0, i * ncols >>, dim |-> << rank, ncols >>]

\* Iteration i of the compression loop succeeds: blocks in range, products
\* well formed, and as many values copied as the block of c holds.
CompressOk(i) ==
    LET ncols == SvdNcoeffs(order)
        vb == VtBlock(i, k, ncols)
        cb == CBlock(i, k)
    IN /\ BlockInside(vt, vb.top_left, vb.dim)
       /\ DotOk(vb.dim, s_block)
       /\ DotOk(sigma_mat, Dot(vb.dim, s_block))
       /\ BlockInside(c, cb.top_left, cb.dim)
       /\ cb.dim[1] * cb.dim[2]
            = Dot(sigma_mat, Dot(vb.dim, s_block))[1] * Dot(sigma_mat, Dot(vb.dim, s_block))[2]

\* compute_m2l_operators: the loop storing the compressed M2L operators in c.
SvdCompress ==
    /\ svd_pc = "truncated"
    /\ IF \A i \in 0 .. transfer_vectors - 1 : CompressOk(i)
       THEN /\ c_blocks' = [n \in 1 .. transfer_vectors |-> CBlock(n - 1, k)]
            /\ svd_pc' = "compressed"
       ELSE /\ svd_pc' = "panic"
            /\ UNCHANGED c_blocks
    /\ UNCHANGED << order, k_arg, k, transfer_vectors, se2tc_fat, se2tc_thin,
                    sigma_mat, u, vt, s_block, c, operator_data, fftVars, fmmVars, resVars, scaleVars, mapVars >>

\* compute_m2l_operators returns SvdM2lOperatorData { u, st_block, c } and new
\* stores it in result.operator_data.
SvdFinish ==
    /\ svd_pc = "compressed"
    /\ operator_data' = [u |-> u, st_block |-> Transpose(s_block), c |-> c]
    /\ svd_pc' = "done"
    /\ UNCHANGED << order, k_arg, k, transfer_vectors, se2tc_fat, se2tc_thin,
                    sigma_mat, u, vt, s_block, c, c_blocks, fftVars, fmmVars, resVars, scaleVars, mapVars >>

NextSvd == SvdNew \/ SvdAssemble \/ SvdTruncate \/ SvdCompress \/ SvdFinish

SpecSvd == InitSvd /\ [][NextSvd]_vars

\* The SVD field translation when it is not the object under construction.
SvdIdle ==
    /\ k_arg = None
    /\ k = 0
    /\ transfer_vectors = 0
    /\ svd_pc = "idle"
    /\ se2tc_fat = NoShape
    /\ se2tc_thin = NoShape
    /\ sigma_mat = NoShape
    /\ u = NoShape
    /\ vt = NoShape
    /\ s_block = NoShape
    /\ c = NoShape
    /\ c_blocks = << >>
    /\ operator_data = SvdM2lOperatorDataDefault

\* ------------------------------------------------------------- MortonKey
\* A key is << level, x, y, z >>: the level and the cell coordinates of the
\* box at that level, 0 <= x, y, z < 2^level.
Abs(x) == IF x < 0 THEN -x ELSE x

\* MortonKey::parent
Parent(key_) == << key_[1] - 1, key_[2] \div 2, key_[3] \div 2, key_[4] \div 2 >>

\* Eight keys of the next level that leave the upper half of the last axis out.
ChildrenFlattened(key_) ==
    [n \in 1 .. 8 |->
        << key_[1] + 1,
           2 * key_[2] + ((n - 1) \div 4),
           2 * key_[3] + (((n - 1) \div 2) % 2),
           2 * key_[4] >>]

\* MortonKey::children: the 8 children in sorted (Morton) order.
Children(key_) ==
    [n \in 1 .. 8 |->
        << key_[1] + 1,
           2 * key_[2] + ((n - 1) \div 4),
           2 * key_[3] + (((n - 1) \div 2) % 2),
           2 * key_[4] + ((n - 1) % 2) >>]

\* MortonKey::siblings: the 8 children of the parent, the key included.
Siblings(key_) == Children(Parent(key_))

InDomain(key_) ==
    \A d \in 2 .. 4 : 0 <= key_[d] /\ key_[d] < 2 ^ key_[1]

\* The 26 directions towards the same-level adjacent cells.
Directions ==
    [n \in 1 .. 27 |-> << ((n - 1) \div 9) - 1, (((n - 1) \div 3) % 3) - 1, ((n - 1) % 3) - 1 >>]

\* MortonKey::neighbors: the same-level adjacent cells that lie in the domain.
Neighbors(key_) ==
    LET cand == [n \in 1 .. 27 |->
                    << key_[1], key_[2] + Directions[n][1], key_[3] + Directions[n][2],
                       key_[4] + Directions[n][3] >>]
        keep(candidate) == candidate # key_ /\ InDomain(candidate)
    IN SelectSeq(cand, keep)

\* MortonKey::is_adjacent for two keys of the same level.
IsAdjacent(a, b) ==
    /\ Abs(a[2] - b[2]) <= 1
    /\ Abs(a[3] - b[3]) <= 1
    /\ Abs(a[4] - b[4]) <= 1

\* MortonKey::find_transfer_vector: the offset from other to the key.
FindTransferVector(key_, other) ==
    << key_[2] - other[2], key_[3] - other[3], key_[4] - other[4] >>

\* MortonKey::from_point for the centre of the domain at the given level. The
\* centre lies on the face shared by cells 2^(level-1) - 1 and 2^(level-1) of
\* every axis; the rounding of origin + diameter / 2 decides between them.
FromPointCentre(lvl) ==
    { << lvl, x, y, z >> : x, y, z \in { 2 ^ (lvl - 1) - 1, 2 ^ (lvl - 1) } }

\* ------------------------------------------------- FFT field translation
\* fn ncoeffs(&self, order) of the FFT provider.
FftNcoeffs(o) == 6 * ((o - 1) ^ 2) + 2

\* The surface size with the square replaced by a doubling.
NSourceEquivalentSurfaceDoubled(o) == 6 * ((o - 1) * 2) + 2

\* let n_source_equivalent_surface = 6 * (order - 1).pow(2) + 2;
NSourceEquivalentSurface(o) == 6 * ((o - 1) ^ 2) + 2

\* let size_real = p * p * (p / 2 + 1) with m = 2 * order - 1, p = m + pad_size.
SizeReal(o) ==
    LET m == 2 * o - 1
        pad_size == 1
        p == m + pad_size
    IN p * p * (p \div 2 + 1)

\* Shape of padded_kernel_hat, the transform of the padded and flipped kernel.
PaddedKernelHatShape(o) ==
    LET m == 2 * o - 1
        p == m + 1
    IN << p, p, p \div 2 + 1 >>

\* The block of zeros allocated without the padding.
PaddedKernelHatZerosShapeUnpadded(o) ==
    LET n == 2 * o - 1
    IN << n, n, n \div 2 + 1 >>

\* Shape of padded_kernel_hat_zeros.
PaddedKernelHatZerosShape(o) ==
    LET n == 2 * o - 1
        p == n + 1
    IN << p, p, p \div 2 + 1 >>

\* The children of the neighbours of the parent, adjacent or not.
VListUnfiltered(target) ==
    LET parent_neighbors == Neighbors(Parent(target))
    IN UNION { { Children(parent_neighbors[q])[r] : r \in 1 .. 8 } :
                 q \in 1 .. Len(parent_neighbors) }

\* The V list of a target: the children of the neighbours of its parent that
\* are not adjacent to it.
VList(target) ==
    LET parent_neighbors == Neighbors(Parent(target))
        pn_children == UNION { { Children(parent_neighbors[q])[r] : r \in 1 .. 8 } :
                                 q \in 1 .. Len(parent_neighbors) }
    IN { pnc \in pn_children : ~IsAdjacent(target, pnc) }

\* The entry pushed on kernel_data_vec[i] for pair j: the transformed kernel
\* when the source is in the V list of the target, a block of zeros otherwise.
KernelBlock(o, target, source) ==
    IF source \in VList(target)
    THEN [zero |-> FALSE, shape |-> PaddedKernelHatShape(o)]
    ELSE [zero |-> TRUE, shape |-> PaddedKernelHatZerosShape(o)]

\* The l-th Fourier coefficient of the kernel of pair j at halo position i:
\* a label that is nonzero and different for every coefficient.
KernelHat(i, j, l, len) == 1 + (i * 64 + j) * len + l

\* Number of values held by a block.
BlockLen(block) == block.shape[1] * block.shape[2] * block.shape[3]

\* Entry l of get_data() of the block stored for pair j at halo position i.
DataAt(block, i, j, l) ==
    IF block.zero THEN 0 ELSE KernelHat(i, j, l, BlockLen(block))

\* The flattened kernels of halo position i: get_data() of block j copied to
\* offset .. offset + size_real with offset = j * size_real.
Flatten(blocks, i, nconvolutions, size_real_) ==
    [n \in 1 .. nconvolutions * size_real_ |->
        DataAt(blocks[((n - 1) \div size_real_) + 1], i, (n - 1) \div size_real_,
               (n - 1) % size_real_)]

\* Every copy_from_slice of the flattening has a source of size_real values.
FlattenOk(blocks, nconvolutions, size_real_) ==
    /\ Len(blocks) >= nconvolutions
    /\ \A j \in 1 .. nconvolutions :
          BlockLen(blocks[j]) = size_real_

\* The index without the frequency: every frequency reads coefficient 0.
RearrangeIndexNoFrequency(j, k_, l, size_real_) == j * size_real_ * 8 + k_ * size_real_

\* The index with the roles of sibling and halo child exchanged.
RearrangeIndexSwapped(j, k_, l, size_real_) == k_ * size_real_ * 8 + j * size_real_ + l

\* The index read for frequency l, halo child k_ and sibling j.
RearrangeIndex(j, k_, l, size_real_) == j * size_real_ * 8 + k_ * size_real_ + l

\* The rearranged kernels of one halo position: the pushes of the loops over
\* l in 0..size_real, k in 0..8 and j in 0..8, in that order.
Rearrange(current_vector, size_real_) ==
    [n \in 1 .. size_real_ * 8 * 8 |->
        LET l == (n - 1) \div 64
            k_ == ((n - 1) % 64) \div 8
            j == (n - 1) % 8
        IN current_vector[RearrangeIndex(j, k_, l, size_real_) + 1]]

FftOrders == 2 .. MaxFftOrder

InitFft ==
    /\ ScaleIdle
    /\ MapIdle
    /\ order \in FftOrders
    /\ SvdIdle
    /\ FftIdle
    /\ FmmIdle
    /\ ResIdle

\* compute_m2l_operators: sizes, the key at the centre, its siblings, the halo
\* of its parent and the children of the halo.
FftSetup ==
    /\ fft_pc = "idle"
    /\ size_real' = SizeReal(order)
    /\ \E centre \in FromPointCentre(3) :
          /\ key' = centre
          /\ siblings' = Siblings(centre)
          /\ halo' = Neighbors(Parent(centre))
          /\ halo_children' = [n \in 1 .. Len(Neighbors(Parent(centre))) |->
                                  Children(Neighbors(Parent(centre))[n])]
          /\ sources' = [n \in 1 .. Len(Neighbors(Parent(centre))) |-> << >>]
          /\ targets' = [n \in 1 .. Len(Neighbors(Parent(centre))) |-> << >>]
          /\ fft_transfer_vectors' = [n \in 1 .. Len(Neighbors(Parent(centre))) |-> << >>]
          /\ kernel_data_vec' = [n \in 1 .. Len(Neighbors(Parent(centre))) |-> << >>]
    /\ fft_i' = 0
    /\ fft_pc' = "pairs"
    /\ UNCHANGED << order, svdVars, fmmVars, resVars, scaleVars, mapVars, n_source_equivalent_surface,
                    n_target_check_surface, kernel_data, kernel_data_rearranged >>

\* One iteration of the loop over halo_children: the 64 (sibling, halo child)
\* pairs of halo position i, sibling major.
FftPairs ==
    /\ fft_pc = "pairs"
    /\ fft_i < Len(halo_children)
    /\ LET halo_child_set == halo_children[fft_i + 1]
           pair(n) == [sibling |-> siblings[((n - 1) \div Len(halo_child_set)) + 1],
                       halo_child |-> halo_child_set[((n - 1) % Len(halo_child_set)) + 1]]
           npairs == Len(siblings) * Len(halo_child_set)
       IN /\ fft_transfer_vectors' =
                [fft_transfer_vectors EXCEPT ![fft_i + 1] =
                    [n \in 1 .. npairs |->
                        FindTransferVector(pair(n).halo_child, pair(n).sibling)]]
          /\ targets' = [targets EXCEPT ![fft_i + 1] =
                            [n \in 1 .. npairs |-> pair(n).sibling]]
          /\ sources' = [sources EXCEPT ![fft_i + 1] =
                            [n \in 1 .. npairs |-> pair(n).halo_child]]
    /\ fft_i' = fft_i + 1
    /\ UNCHANGED << order, svdVars, fmmVars, resVars, scaleVars, mapVars, fft_pc, size_real, key, siblings, halo,
                    halo_children, n_source_equivalent_surface,
                    n_target_check_surface, kernel_data_vec, kernel_data,
                    kernel_data_rearranged >>

\* The sizes of the surfaces, set between the two loops.
FftSurfaceSizes ==
    /\ fft_pc = "pairs"
    /\ fft_i = Len(halo_children)
    /\ n_source_equivalent_surface' = NSourceEquivalentSurface(order)
    /\ n_target_check_surface' = NSourceEquivalentSurface(order)
    /\ fft_i' = 0
    /\ fft_pc' = "kernels"
    /\ UNCHANGED << order, svdVars, fmmVars, resVars, scaleVars, mapVars, size_real, key, siblings, halo, halo_children,
                    sources, targets, fft_transfer_vectors, kernel_data_vec,
                    kernel_data, kernel_data_rearranged >>

\* One iteration of the loop over the sets of convolutions: the kernels of
\* the pairs of halo position i, pushed in the order of the pairs.
FftKernels ==
    /\ fft_pc = "kernels"
    /\ fft_i < Len(fft_transfer_vectors)
    /\ kernel_data_vec' =
          [kernel_data_vec EXCEPT ![fft_i + 1] =
              [n \in 1 .. Len(fft_transfer_vectors[fft_i + 1]) |->
                  KernelBlock(order, targets[fft_i + 1][n], sources[fft_i + 1][n])]]
    /\ fft_i' = fft_i + 1
    /\ UNCHANGED << order, svdVars, fmmVars, resVars, scaleVars, mapVars, fft_pc, size_real, key, siblings, halo,
                    halo_children, sources, targets, fft_transfer_vectors,
                    n_source_equivalent_surface, n_target_check_surface,
                    kernel_data, kernel_data_rearranged >>

\* kernel_data: for each halo position the blocks of its pairs, one after
\* the other.
FftFlatten ==
    /\ fft_pc = "kernels"
    /\ fft_i = Len(fft_transfer_vectors)
    /\ LET nsiblings == 8
           nconvolutions == nsiblings * nsiblings
       IN IF \A i \in 1 .. Len(halo_children) :
                 FlattenOk(kernel_data_vec[i], nconvolutions, size_real)
          THEN /\ kernel_data' =
                    [i \in 1 .. Len(halo_children) |->
                        Flatten(kernel_data_vec[i], i - 1, nconvolutions, size_real)]
               /\ fft_pc' = "flattened"
          ELSE /\ fft_pc' = "panic"
               /\ UNCHANGED kernel_data
    /\ UNCHANGED << order, svdVars, fmmVars, resVars, scaleVars, mapVars, size_real, key, siblings, halo, halo_children,
                    sources, targets, fft_transfer_vectors,
                    n_source_equivalent_surface, n_target_check_surface,
                    kernel_data_vec, kernel_data_rearranged, fft_i >>

\* kernel_data_rearranged, grouped by frequency, then halo child, then
\* sibling; FftM2lOperatorData { kernel_data, kernel_data_rearranged }.
FftRearrange ==
    /\ fft_pc = "flattened"
    /\ IF \A i \in 1 .. Len(halo_children) :
             Len(kernel_data[i]) >= RearrangeIndex(7, 7, size_real - 1, size_real) + 1
       THEN /\ kernel_data_rearranged' =
                 [i \in 1 .. Len(halo_children) |-> Rearrange(kernel_data[i], size_real)]
            /\ fft_pc' = "done"
       ELSE /\ fft_pc' = "panic"
            /\ UNCHANGED kernel_data_rearranged
    /\ UNCHANGED << order, svdVars, fmmVars, resVars, scaleVars, mapVars, size_real, key, siblings, halo, halo_children,
                    sources, targets, fft_transfer_vectors,
                    n_source_equivalent_surface, n_target_check_surface,
                    kernel_data_vec, kernel_data, fft_i >>

NextFft ==
    FftSetup \/ FftPairs \/ FftSurfaceSizes \/ FftKernels \/ FftFlatten \/ FftRearrange

SpecFft == InitFft /\ [][NextFft]_vars

\* ------------------------------------- surface and convolution grid maps
\* let conv_index = i + n * j + n * n * k;
ConvIndex(i, j, k_, n) == i + n * j + n * n * k_

\* The whole cube of side order embedded in the convolution grid.
OnSurfaceWholeCube(i, j, k_, o) ==
    LET lower == o - 1 IN i >= lower /\ j >= lower /\ k_ >= lower

\* The test of compute_surf_to_conv_map: the grid point is on the surface grid.
OnSurface(i, j, k_, o) ==
    LET lower == o - 1
        upper == 2 * o - 2
    IN \/ (i >= lower /\ j >= lower /\ (k_ = lower \/ k_ = upper))
       \/ (j >= lower /\ k_ >= lower /\ (i = lower \/ i = upper))
       \/ (k_ >= lower /\ i >= lower /\ (j = lower \/ j = upper))

\* HashMap::insert
Insert(map, from, to) ==
    [x \in (DOMAIN map) \cup { from } |-> IF x = from THEN to ELSE map[x]]

\* The charges put at the first entries of the grid, whatever the maps hold.
SignalEntryUnmapped(conv_index, chg) ==
    IF conv_index < Len(chg) THEN chg[conv_index + 1] ELSE 0

\* compute_signal: the entry of the grid at conv_index.
SignalEntry(conv_index, chg) ==
    IF conv_index \in DOMAIN conv_to_surf_map
    THEN chg[conv_to_surf_map[conv_index] + 1]
    ELSE 0

\* compute_signal: the loops over k, j, i assign every entry of tmp once.
ComputeSignal(o, chg) ==
    LET n == 2 * o - 1
    IN [conv_index \in { ConvIndex(i, j, k_, n) : i, j, k_ \in 0 .. n - 1 } |->
           SignalEntry(conv_index, chg)]

\* Every lookup charges[*surf_index] of compute_signal is in range.
SignalInRange(chg) ==
    \A conv_index \in DOMAIN conv_to_surf_map : conv_to_surf_map[conv_index] < Len(chg)

ConvOrders == 2 .. MaxConvOrder

\* The charge vectors of length ncoeffs handed to compute_signal.
ChargeVectors(o) ==
    { [s \in 1 .. FftNcoeffs(o) |-> a * s + b] : a \in 0 .. 1, b \in 0 .. MaxCharge }

InitConv ==
    /\ ScaleIdle
    /\ SvdIdle
    /\ FftIdle
    /\ FmmIdle
    /\ ResIdle
    /\ order \in ConvOrders
    /\ map_pc = "start"
    /\ map_t = 0
    /\ surf_index = 0
    /\ surf_to_conv_map = << >>
    /\ conv_to_surf_map = << >>
    /\ signal_charges = << >>
    /\ signal = << >>

\* compute_surf_to_conv_map: one iteration of the loops over k, j and i, i
\* the innermost.
ConvMapVisit ==
    /\ map_pc = "start"
    /\ LET n == 2 * order - 1
           i == map_t % n
           j == (map_t \div n) % n
           k_ == map_t \div (n * n)
           conv_index == ConvIndex(i, j, k_, n)
       IN /\ map_t < n * n * n
          /\ IF OnSurface(i, j, k_, order)
             THEN /\ surf_to_conv_map' = Insert(surf_to_conv_map, surf_index, conv_index)
                  /\ conv_to_surf_map' = Insert(conv_to_surf_map, conv_index, surf_index)
                  /\ surf_index' = surf_index + 1
             ELSE UNCHANGED << surf_to_conv_map, conv_to_surf_map, surf_index >>
    /\ map_t' = map_t + 1
    /\ UNCHANGED << order, svdVars, fftVars, fmmVars, resVars, scaleVars, map_pc,
                    signal_charges, signal >>

\* compute_surf_to_conv_map returns and new stores the two maps.
ConvMapReturn ==
    /\ map_pc = "start"
    /\ map_t = (2 * order - 1) * (2 * order - 1) * (2 * order - 1)
    /\ map_pc' = "maps"
    /\ UNCHANGED << order, svdVars, fftVars, fmmVars, resVars, scaleVars, map_t,
                    surf_index, surf_to_conv_map, conv_to_surf_map, signal_charges,
                    signal >>

\* compute_signal(order, charges) on the constructed translation data.
ComputeSignalCall ==
    /\ map_pc = "maps"
    /\ \E chg \in ChargeVectors(order) :
          /\ signal_charges' = chg
          /\ IF SignalInRange(chg)
             THEN /\ signal' = ComputeSignal(order, chg)
                  /\ map_pc' = "signal"
             ELSE /\ map_pc' = "panic"
                  /\ UNCHANGED signal
    /\ UNCHANGED << order, svdVars, fftVars, fmmVars, resVars, scaleVars, map_t,
                    surf_index, surf_to_conv_map, conv_to_surf_map >>

NextConv == ConvMapVisit \/ ConvMapReturn \/ ComputeSignalCall

SpecConv == InitConv /\ [][NextConv]_vars

\* ---------------------------------------------------------- FMM data tree
\* The anchor of the box of Morton index m at level lvl: one octant per level,
\* in the order of MortonKey::children.
RECURSIVE AnchorOf(_, _)
AnchorOf(lvl, m) ==
    IF lvl = 0
    THEN << 0, 0, 0 >>
    ELSE LET a == AnchorOf(lvl - 1, m \div 8)
             d == m % 8
         IN << 2 * a[1] + (d \div 4), 2 * a[2] + ((d \div 2) % 2), 2 * a[3] + (d % 2) >>

KeyOf(lvl, m) == LET a == AnchorOf(lvl, m) IN << lvl, a[1], a[2], a[3] >>

\* The Morton index of a key inside its level: the order of the keys of a level.
RECURSIVE Morton(_)
Morton(key_) ==
    IF key_[1] = 0
    THEN 0
    ELSE 8 * Morton(Parent(key_)) + 4 * (key_[2] % 2) + 2 * (key_[3] % 2) + (key_[4] % 2)

\* A finite set of numbers as a sorted sequence.
SortedSeq(S) ==
    [i \in 1 .. Cardinality(S) |-> CHOOSE m \in S : Cardinality({ n \in S : n < m }) = i - 1]

\* A set of keys of one level, sorted: parent_targets.sort().
SortKeys(S) ==
    [i \in 1 .. Cardinality(S) |->
        CHOOSE q \in S : Cardinality({ r \in S : Morton(r) < Morton(q) }) = i - 1]

\* The keys of level lvl of the tree of depth d over the leaves of Morton
\* indices S: the ancestors of the leaves, sorted and without duplicates.
LevelKeys(S, d, lvl) ==
    LET sq == SortedSeq({ m \div (8 ^ (d - lvl)) : m \in S })
    IN [i \in 1 .. Len(sq) |-> KeyOf(lvl, sq[i])]

\* The keys of the tree, level after level from lvl on.
RECURSIVE KeysFrom(_, _, _)
KeysFrom(S, d, lvl) ==
    IF lvl > d THEN << >> ELSE LevelKeys(S, d, lvl) \o KeysFrom(S, d, lvl + 1)

\* The leaves of a uniform tree of depth d: every box of the level.
UniformLeaves(d) == 0 .. (8 ^ d) - 1

\* The boxes a sparse tree of depth d may keep: those that hold points.
OccupiedPool(d) == { 0, 1, (8 ^ d) - 1 }

\* Occupied boxes of a tree of depth 2 or more whose parents have 1, 8, 1, 1
\* and 1 of their children.
ScatteredLeaves == { 0 } \cup (8 .. 15) \cup { 16, 24, 32 }

\* Occupied boxes of a tree of depth 2 or more whose two parents have all 8 of
\* their children, the root having 2 of its own.
FullFamilyLeaves == 8 .. 23

\* Occupied boxes whose number no chunk size above 1 divides.
FiveLeaves == 0 .. 4

\* The trees built: uniform trees in full up to MaxLeaves leaves, and trees
\* that keep only occupied leaves.
LeafSets(d) ==
    (IF 8 ^ d <= MaxLeaves THEN { UniformLeaves(d) } ELSE {})
        \cup { S \in SUBSET OccupiedPool(d) : S # {} }
        \cup { FiveLeaves }
        \cup (IF d >= 2 THEN { ScatteredLeaves, FullFamilyLeaves } ELSE {})

\* The leaves that hold a point: all of them, every other one, or the pool;
\* a tree that keeps only occupied leaves has no empty leaf.
Occupancies(S, d) ==
    IF S = UniformLeaves(d)
    THEN { S, { m \in S : m % 2 = 0 }, OccupiedPool(d) }
    ELSE { S }

\* The number of points in the leaf of Morton index m: one or two if occupied.
PointsIn(m, occ) == IF m \in occ THEN 1 + (m % 2) ELSE 0

\* The number of points in the leaves of occ before Morton index m.
PointsBefore(m, occ) ==
    Cardinality({ n \in occ : n < m }) + Cardinality({ n \in occ : n < m /\ n % 2 = 1 })

\* The half-open range of points of each leaf: the points are in Morton order,
\* so the points of a leaf follow those of the leaves before it.
ChargeIndexPointer(S, occ) ==
    LET sq == SortedSeq(S)
    IN [i \in 1 .. Len(sq) |->
          LET lo == PointsBefore(sq[i], occ)
          IN << lo, lo + PointsIn(sq[i], occ) >>]

\* The charges of the points, in the order of the tree: vec![1.0; npoints].
Charges(occ, d) == [p \in 1 .. PointsBefore(8 ^ d, occ) |-> 1]

\* The coordinates of the points, in the order of the tree: for each point the
\* Morton index of the leaf it lies in.
Coordinates(occ, d) ==
    [p \in 1 .. PointsBefore(8 ^ d, occ) |->
        CHOOSE m \in occ : PointsBefore(m, occ) < p /\ p <= PointsBefore(m, occ) + PointsIn(m, occ)]

\* tree.get_keys(level)
GetKeys(lvl) == SelectSeq(keys, LAMBDA q : q[1] = lvl)

HasKey(q) == \E i \in 1 .. Len(keys) : keys[i] = q

\* tree.key_to_index / level_index_pointer: the slot of a key in multipoles.
KeyToIndex(q) == (CHOOSE i \in 1 .. Len(keys) : keys[i] = q) - 1

\* The chunk size taken as the maximum, whether or not it divides n.
FindChunkSizeNoDivisor(n, max_chunk_size) == Min(n, max_chunk_size)

\* helpers::find_chunk_size: the largest divisor of n up to max_chunk_size.
FindChunkSize(n, max_chunk_size) ==
    IF \E d \in 1 .. max_chunk_size : n % d = 0
    THEN CHOOSE d \in 1 .. max_chunk_size :
            /\ n % d = 0
            /\ \A e \in (d + 1) .. max_chunk_size : n % e # 0
    ELSE 1

\* The points of a range that takes its upper end in.
SliceInclusive(cip) == cip[1] .. cip[2]

\* The points of charge_index_pointer.0..charge_index_pointer.1.
Slice(cip) == cip[1] .. (cip[2] - 1)

\* &self.charges[lo..hi] and the matching slice of the coordinates are in
\* range of the n points.
SliceInRange(cip, n) == cip[1] <= cip[2] /\ cip[2] <= n

\* The number of sources of a leaf, one too many.
NSourcesOffByOne(cip) == cip[2] - cip[1] + 1

\* let nsources = coordinates.len() / dim, of the slice lo*dim .. hi*dim.
NSources(cip) == cip[2] - cip[1]

\* The number of entries of ptrs that name each slot, added to count.
CountWrites(count, ptrs) ==
    [s \in 1 .. Len(count) |->
        count[s] + Cardinality({ i \in 1 .. Len(ptrs) : ptrs[i] + 1 = s })]

\* tmp += into every slot of the multipoles.
AccumulateAll(mp, ptrs, tmp, i) == [s \in 1 .. Len(mp) |-> mp[s] (+) tmp[1]]

\* tmp += into the slots the pointers of a chunk name, one after the other.
RECURSIVE Accumulate(_, _, _, _)
Accumulate(mp, ptrs, tmp, i) ==
    IF i > Len(ptrs)
    THEN mp
    ELSE Accumulate([mp EXCEPT ![ptrs[i] + 1] = @ (+) tmp[i]], ptrs, tmp, i + 1)

\* The product taking in the first of the multipoles only.
SiblingSumFirst(first, n) == multipoles[first + 1]

\* The product of the m2m matrix with nsiblings consecutive multipoles from
\* slot first on: the sum of what each of them holds.
RECURSIVE SiblingSum(_, _)
SiblingSum(first, n) ==
    IF n = 0 THEN EmptyBag ELSE SiblingSum(first, n - 1) (+) multipoles[first + n]

\* The i-th item (from 1) of a chunk of par_chunks_exact(cs): chunks that
\* share an item.
ChunkItemOverlapping(chunk, cs, i) == chunk + i

\* The i-th item (from 1) of a chunk (from 0) of par_chunks_exact(cs).
ChunkItem(chunk, cs, i) == chunk * cs + i

\* A worker of the pool takes the next item of the parallel loop.
CanTake == task_next < task_count /\ Cardinality(running) < NumThreads

\* for_each returning as soon as every item is handed out.
ForEachCompleteEarly == task_next = task_count

\* for_each returns: every item is handed out and every worker has finished.
ForEachComplete == task_next = task_count /\ running = {}

MaxDepths == 1 .. MaxDepth

InitFmm ==
    /\ ScaleIdle
    /\ MapIdle
    /\ order = 6
    /\ SvdIdle
    /\ FftIdle
    /\ ResIdle
    /\ depth \in MaxDepths
    /\ \E S \in LeafSets(depth) : \E occ \in Occupancies(S, depth) :
          /\ leaves = LevelKeys(S, depth, depth)
          /\ keys = KeysFrom(S, depth, 0)
          /\ charge_index_pointer = ChargeIndexPointer(S, occ)
          /\ charges = Charges(occ, depth)
          /\ coordinates = Coordinates(occ, depth)
    /\ check_potentials = << >>
    /\ multipoles = [i \in 1 .. Len(keys) |-> EmptyBag]
    /\ fmm_pc = "start"
    /\ level = 0
    /\ chunk_size = 0
    /\ task_count = 0
    /\ task_next = 0
    /\ running = {}
    /\ parent_targets = << >>
    /\ pass_log = << >>
    /\ kernel_calls = {}
    /\ multipoles_before = multipoles
    /\ write_count = [i \in 1 .. Len(keys) |-> 0]
    /\ locals = [i \in 1 .. Len(keys) |-> 0]
    /\ level_index_pointer = { keys[i] : i \in 1 .. Len(keys) }
    /\ key_to_index = { keys[i] : i \in 1 .. Len(keys) }

\* p2m, up to the first parallel loop: the check potentials are allocated.
P2mStart ==
    /\ fmm_pc = "start"
    /\ check_potentials' = [i \in 1 .. Len(leaves) |-> EmptyBag]
    /\ task_count' = Min(Len(leaves), Len(charge_index_pointer))
    /\ task_next' = 0
    /\ level' = depth
    /\ pass_log' = Append(pass_log, [pass |-> "p2m", level |-> depth])
    /\ fmm_pc' = "p2m_check"
    /\ kernel_calls' = {}
    /\ multipoles_before' = multipoles
    /\ write_count' = [s \in 1 .. Len(multipoles) |-> 0]
    /\ UNCHANGED << order, svdVars, fftVars, resVars, scaleVars, mapVars, depth, leaves, keys, charges,
                    coordinates, locals, level_index_pointer, key_to_index,
                    charge_index_pointer, multipoles, chunk_size, running,
                    parent_targets >>

\* p2m, stage 1: a worker takes the next leaf.
P2mCheckTake ==
    /\ fmm_pc = "p2m_check"
    /\ CanTake
    /\ running' = running \cup
          { [pass |-> "p2m", stage |-> 1, level |-> level, idx |-> task_next,
             ptrs |-> << >>, tmp |-> << >>, reads |-> {}] }
    /\ task_next' = task_next + 1
    /\ UNCHANGED << order, svdVars, fftVars, resVars, scaleVars, mapVars, depth, leaves, keys, charges,
                    coordinates, locals, level_index_pointer, key_to_index,
                    kernel_calls, multipoles_before, write_count,
                    charge_index_pointer, check_potentials, multipoles, fmm_pc,
                    level, chunk_size, task_count, parent_targets, pass_log >>

\* p2m, stage 1: the closure on one leaf; the kernel is evaluated only if the
\* leaf holds sources.
P2mCheckPotential ==
    /\ \E t \in running :
          /\ t.pass = "p2m"
          /\ t.stage = 1
          /\ LET cip == charge_index_pointer[t.idx + 1]
                 nsources == NSources(cip)
             IN IF ~SliceInRange(cip, Len(charges))
                THEN /\ fmm_pc' = "panic"
                     /\ UNCHANGED << check_potentials, kernel_calls >>
                ELSE IF nsources > 0
                THEN /\ check_potentials' =
                            [check_potentials EXCEPT
                                ![t.idx + 1] = @ (+) SetToBag({ leaves[t.idx + 1] })]
                     /\ kernel_calls' = kernel_calls \cup
                            { [leaf |-> t.idx, lo |-> cip[1], hi |-> cip[2],
                               points |-> Slice(cip)] }
                     /\ UNCHANGED fmm_pc
                ELSE UNCHANGED << check_potentials, kernel_calls, fmm_pc >>
          /\ running' = running \ { t }
    /\ UNCHANGED << order, svdVars, fftVars, resVars, scaleVars, mapVars, depth, leaves, keys, charges,
                    coordinates, locals, level_index_pointer, key_to_index,
                    multipoles_before, write_count,
                    charge_index_pointer, multipoles, level, chunk_size,
                    task_count, task_next, parent_targets, pass_log >>

\* p2m, between the stages: the chunk size and the chunks of the second loop.
P2mChunks ==
    /\ fmm_pc = "p2m_check"
    /\ ForEachComplete
    /\ LET nleaves == Len(leaves)
           cs == FindChunkSize(nleaves, P2M_MAX_CHUNK_SIZE)
       IN /\ chunk_size' = cs
          /\ task_count' = nleaves \div cs
    /\ task_next' = 0
    /\ fmm_pc' = "p2m_mult"
    /\ UNCHANGED << order, svdVars, fftVars, resVars, scaleVars, mapVars, depth, leaves, keys, charges,
                    coordinates, locals, level_index_pointer, key_to_index,
                    kernel_calls, multipoles_before, write_count,
                    charge_index_pointer, check_potentials, multipoles, level,
                    running, parent_targets, pass_log >>

\* p2m, stage 2: a worker takes the next chunk of leaves and applies the
\* inverse operator to their check potentials.
P2mMultipoleTake ==
    /\ fmm_pc = "p2m_mult"
    /\ CanTake
    /\ running' = running \cup
          { [pass |-> "p2m", stage |-> 2, level |-> level, idx |-> task_next,
             ptrs |-> [i \in 1 .. chunk_size |->
                          KeyToIndex(leaves[ChunkItem(task_next, chunk_size, i)])],
             tmp |-> [i \in 1 .. chunk_size |->
                          check_potentials[ChunkItem(task_next, chunk_size, i)]],
             scale |-> [i \in 1 .. chunk_size |-> ChunkItem(task_next, chunk_size, i)],
             reads |-> {}] }
    /\ task_next' = task_next + 1
    /\ UNCHANGED << order, svdVars, fftVars, resVars, scaleVars, mapVars, depth, leaves, keys, charges,
                    coordinates, locals, level_index_pointer, key_to_index,
                    kernel_calls, multipoles_before, write_count,
                    charge_index_pointer, check_potentials, multipoles, fmm_pc,
                    level, chunk_size, task_count, parent_targets, pass_log >>

\* p2m, stage 2: *m += *t for the leaves of the chunk.
P2mMultipoleAdd ==
    /\ \E t \in running :
          /\ t.pass = "p2m"
          /\ t.stage = 2
          /\ multipoles' = Accumulate(multipoles, t.ptrs, t.tmp, 1)
          /\ write_count' = CountWrites(write_count, t.ptrs)
          /\ running' = running \ { t }
    /\ UNCHANGED << order, svdVars, fftVars, resVars, scaleVars, mapVars, depth, leaves, keys, charges,
                    coordinates, locals, level_index_pointer, key_to_index,
                    kernel_calls, multipoles_before,
                    charge_index_pointer, check_potentials, fmm_pc, level,
                    chunk_size, task_count, task_next, parent_targets, pass_log >>

\* p2m returns and the loop over the levels begins: for level in (1..=depth).rev()
P2mReturn ==
    /\ fmm_pc = "p2m_mult"
    /\ ForEachComplete
    /\ fmm_pc' = "upward"
    /\ level' = depth
    /\ UNCHANGED << order, svdVars, fftVars, resVars, scaleVars, mapVars, depth, leaves, keys, charges,
                    coordinates, locals, level_index_pointer, key_to_index,
                    kernel_calls, multipoles_before, write_count,
                    charge_index_pointer, check_potentials, multipoles,
                    chunk_size, task_count, task_next, running, parent_targets,
                    pass_log >>

\* The child multipoles taken from the first slot of the storage on.
MinIdxOfStorage(lvl) == 0

\* The first slot of the multipoles of a level.
MinIdx(lvl) == KeyToIndex(GetKeys(lvl)[1])

\* The blocks of child multipoles laid one slot apart in place of nsiblings.
ChildSlotUnstrided(lvl, n) == MinIdx(lvl) + (n - 1)

\* The slot before the first of the nsiblings child multipoles that the
\* chunks of m2m(lvl) pair with the n-th parent (from 1).
ChildSlot(lvl, n) == MinIdx(lvl) + (n - 1) * 8

\* The lookups taken as found whatever the maps hold.
LookupFailsNever(parents, child_sources) == FALSE

\* One of the unwraps of m2m fails: a parent has no entry in the index map of
\* its level, or the first or the last key of the level none in key_to_index.
LookupFails(parents, child_sources) ==
    \/ \E i \in 1 .. Len(parents) : parents[i] \notin level_index_pointer
    \/ child_sources[1] \notin key_to_index
    \/ child_sources[Len(child_sources)] \notin key_to_index

\* m2m(level), up to the parallel loop: the parents, their pointers, the
\* range of the child multipoles and the chunk size.
M2mStart ==
    /\ fmm_pc = "upward"
    /\ level >= 1
    /\ LET child_sources == GetKeys(level)
           parents == SortKeys({ Parent(child_sources[i]) : i \in 1 .. Len(child_sources) })
           nparents == Len(parents)
           n_child_sources == Len(child_sources)
           min_idx == KeyToIndex(child_sources[1])
           max_idx == KeyToIndex(child_sources[n_child_sources])
           max_chunk_size == Min(nparents, M2M_MAX_CHUNK_SIZE)
           cs == FindChunkSize(nparents, max_chunk_size)
       IN IF n_child_sources = 0
          THEN /\ fmm_pc' = "m2m"
               /\ task_count' = 0
               /\ UNCHANGED << parent_targets, chunk_size >>
          ELSE IF LookupFails(parents, child_sources)
          THEN /\ fmm_pc' = "panic"
               /\ UNCHANGED << parent_targets, chunk_size, task_count >>
          ELSE /\ fmm_pc' = "m2m"
               /\ parent_targets' = parents
               /\ chunk_size' = cs
               /\ task_count' = Min((max_idx + 1 - min_idx) \div (8 * cs), nparents \div cs)
    /\ task_next' = 0
    /\ pass_log' = Append(pass_log, [pass |-> "m2m", level |-> level])
    /\ multipoles_before' = multipoles
    /\ write_count' = [s \in 1 .. Len(multipoles) |-> 0]
    /\ UNCHANGED << order, svdVars, fftVars, resVars, scaleVars, mapVars, depth, leaves, keys, charges,
                    coordinates, locals, level_index_pointer, key_to_index,
                    kernel_calls,
                    charge_index_pointer, check_potentials, multipoles, level,
                    running >>

\* m2m(level): a worker takes the next chunk of parents and multiplies the
\* m2m matrix with the multipoles of their 8 * chunk_size child slots.
M2mTake ==
    /\ fmm_pc = "m2m"
    /\ CanTake
    /\ running' = running \cup
          { [pass |-> "m2m", stage |-> 1, level |-> level, idx |-> task_next,
             ptrs |-> [j \in 1 .. chunk_size |->
                          KeyToIndex(parent_targets[ChunkItem(task_next, chunk_size, j)])],
             tmp |-> [j \in 1 .. chunk_size |->
                          SiblingSum(ChildSlot(level, ChunkItem(task_next, chunk_size, j)), 8)],
             reads |-> { ChildSlot(level, ChunkItem(task_next, chunk_size, 1)) + n :
                            n \in 0 .. (8 * chunk_size) - 1 }] }
    /\ task_next' = task_next + 1
    /\ UNCHANGED << order, svdVars, fftVars, resVars, scaleVars, mapVars, depth, leaves, keys, charges,
                    coordinates, locals, level_index_pointer, key_to_index,
                    kernel_calls, multipoles_before, write_count,
                    charge_index_pointer, check_potentials, multipoles, fmm_pc,
                    level, chunk_size, task_count, parent_targets, pass_log >>

\* m2m(level): *p += *t for the parents of the chunk.
M2mAdd ==
    /\ \E t \in running :
          /\ t.pass = "m2m"
          /\ multipoles' = Accumulate(multipoles, t.ptrs, t.tmp, 1)
          /\ write_count' = CountWrites(write_count, t.ptrs)
          /\ running' = running \ { t }
    /\ UNCHANGED << order, svdVars, fftVars, resVars, scaleVars, mapVars, depth, leaves, keys, charges,
                    coordinates, locals, level_index_pointer, key_to_index,
                    kernel_calls, multipoles_before,
                    charge_index_pointer, check_potentials, fmm_pc, level,
                    chunk_size, task_count, task_next, parent_targets, pass_log >>

\* m2m(level) returns and the loop goes on to the level above.
M2mReturn ==
    /\ fmm_pc = "m2m"
    /\ ForEachComplete
    /\ fmm_pc' = "upward"
    /\ level' = level - 1
    /\ UNCHANGED << order, svdVars, fftVars, resVars, scaleVars, mapVars, depth, leaves, keys, charges,
                    coordinates, locals, level_index_pointer, key_to_index,
                    kernel_calls, multipoles_before, write_count,
                    charge_index_pointer, check_potentials, multipoles,
                    chunk_size, task_count, task_next, running, parent_targets,
                    pass_log >>

\* The upward pass is over; the downward passes start at level 2.
UpwardDone ==
    /\ fmm_pc = "upward"
    /\ level = 0
    /\ fmm_pc' = "downward"
    /\ level' = 2
    /\ UNCHANGED << order, svdVars, fftVars, resVars, scaleVars, mapVars, depth, leaves, keys, charges,
                    coordinates, locals, level_index_pointer, key_to_index,
                    kernel_calls, multipoles_before, write_count,
                    charge_index_pointer, check_potentials, multipoles,
                    chunk_size, task_count, task_next, running, parent_targets,
                    pass_log >>

\* The M2L, near-field and L2L passes of one level.
DownwardPass ==
    /\ fmm_pc = "downward"
    /\ level <= depth
    /\ pass_log' = Append(pass_log, [pass |-> "downward", level |-> level])
    /\ level' = level + 1
    /\ locals' = [s \in 1 .. Len(locals) |->
                      IF keys[s][1] = level THEN locals[s] + 1 ELSE locals[s]]
    /\ UNCHANGED << order, svdVars, fftVars, resVars, scaleVars, mapVars, depth, leaves, keys, charges,
                    coordinates, level_index_pointer, key_to_index,
                    kernel_calls, multipoles_before, write_count,
                    charge_index_pointer, check_potentials, multipoles, fmm_pc,
                    chunk_size, task_count, task_next, running, parent_targets >>

\* L2P/P2P at the leaves: the potentials at every point.
LeafPass ==
    /\ fmm_pc = "downward"
    /\ level > depth
    /\ pass_log' = Append(pass_log, [pass |-> "leaf", level |-> depth])
    /\ fmm_pc' = "done"
    /\ UNCHANGED << order, svdVars, fftVars, resVars, scaleVars, mapVars, depth, leaves, keys, charges,
                    coordinates, locals, level_index_pointer, key_to_index,
                    kernel_calls, multipoles_before, write_count,
                    charge_index_pointer, check_potentials, multipoles, level,
                    chunk_size, task_count, task_next, running, parent_targets >>

NextFmm ==
    \/ P2mStart
    \/ P2mCheckTake
    \/ P2mCheckPotential
    \/ P2mChunks
    \/ P2mMultipoleTake
    \/ P2mMultipoleAdd
    \/ P2mReturn
    \/ M2mStart
    \/ M2mTake
    \/ M2mAdd
    \/ M2mReturn
    \/ UpwardDone
    \/ DownwardPass
    \/ LeafPass

SpecFmm == InitFmm /\ [][NextFmm]_vars

\* The number of calls so far of a pass on a level.
CallsOf(pass_, lvl) ==
    Cardinality({ n \in 1 .. Len(pass_log) : pass_log[n] = [pass |-> pass_, level |-> lvl] })

\* The passes are callable on their own: p2m() is called again when it has
\* returned.
P2mAgain ==
    /\ fmm_pc = "upward"
    /\ level = depth
    /\ CallsOf("p2m", depth) < MaxCalls
    /\ fmm_pc' = "start"
    /\ UNCHANGED << order, svdVars, fftVars, resVars, scaleVars, mapVars, depth, leaves, keys, charges,
                    coordinates, locals, level_index_pointer, key_to_index,
                    kernel_calls, multipoles_before, write_count,
                    charge_index_pointer, check_potentials, multipoles, level,
                    chunk_size, task_count, task_next, running, parent_targets,
                    pass_log >>

\* m2m(level) is called again on the same level when it has returned.
M2mAgain ==
    /\ fmm_pc = "upward"
    /\ level < depth
    /\ CallsOf("m2m", level + 1) < MaxCalls
    /\ level' = level + 1
    /\ UNCHANGED << order, svdVars, fftVars, resVars, scaleVars, mapVars, depth, leaves, keys, charges,
                    coordinates, locals, level_index_pointer, key_to_index,
                    kernel_calls, multipoles_before, write_count,
                    charge_index_pointer, check_potentials, multipoles, fmm_pc,
                    chunk_size, task_count, task_next, running, parent_targets,
                    pass_log >>

NextFmmCalls == NextFmm \/ P2mAgain \/ M2mAgain

\* The upward passes with calls repeated.
SpecFmmCalls == InitFmm /\ [][NextFmmCalls]_vars

\* The levels m2m was not called on yet.
LevelsLeft == { lvl \in 1 .. depth : CallsOf("m2m", lvl) = 0 }

\* A uniform tree built in full, every leaf or every other leaf holding points.
InitFmmOrder ==
    /\ ScaleIdle
    /\ MapIdle
    /\ order = 6
    /\ SvdIdle
    /\ FftIdle
    /\ ResIdle
    /\ depth \in { d \in MaxDepths : 8 ^ d <= MaxLeaves }
    /\ \E occ \in { UniformLeaves(depth), { m \in UniformLeaves(depth) : m % 2 = 0 } } :
          /\ leaves = LevelKeys(UniformLeaves(depth), depth, depth)
          /\ keys = KeysFrom(UniformLeaves(depth), depth, 0)
          /\ charge_index_pointer = ChargeIndexPointer(UniformLeaves(depth), occ)
          /\ charges = Charges(occ, depth)
          /\ coordinates = Coordinates(occ, depth)
    /\ check_potentials = << >>
    /\ multipoles = [i \in 1 .. Len(keys) |-> EmptyBag]
    /\ fmm_pc = "start"
    /\ level = 0
    /\ chunk_size = 0
    /\ task_count = 0
    /\ task_next = 0
    /\ running = {}
    /\ parent_targets = << >>
    /\ pass_log = << >>
    /\ kernel_calls = {}
    /\ multipoles_before = multipoles
    /\ write_count = [i \in 1 .. Len(keys) |-> 0]
    /\ locals = [i \in 1 .. Len(keys) |-> 0]
    /\ level_index_pointer = { keys[i] : i \in 1 .. Len(keys) }
    /\ key_to_index = { keys[i] : i \in 1 .. Len(keys) }

\* p2m returns to a caller that passes the levels in an order of its own.
P2mReturnAnyOrder ==
    /\ fmm_pc = "p2m_mult"
    /\ ForEachComplete
    /\ fmm_pc' = "upward"
    /\ level' \in LevelsLeft
    /\ UNCHANGED << order, svdVars, fftVars, resVars, scaleVars, mapVars, depth, leaves, keys, charges,
                    coordinates, locals, level_index_pointer, key_to_index,
                    kernel_calls, multipoles_before, write_count,
                    charge_index_pointer, check_potentials, multipoles,
                    chunk_size, task_count, task_next, running, parent_targets,
                    pass_log >>

\* m2m(level) returns to that caller: it goes on to a level not yet passed,
\* and stops when none is left.
M2mReturnAnyOrder ==
    /\ fmm_pc = "m2m"
    /\ ForEachComplete
    /\ fmm_pc' = "upward"
    /\ level' \in (IF LevelsLeft = {} THEN { 0 } ELSE LevelsLeft)
    /\ UNCHANGED << order, svdVars, fftVars, resVars, scaleVars, mapVars, depth, leaves, keys, charges,
                    coordinates, locals, level_index_pointer, key_to_index,
                    kernel_calls, multipoles_before, write_count,
                    charge_index_pointer, check_potentials, multipoles,
                    chunk_size, task_count, task_next, running, parent_targets,
                    pass_log >>

NextFmmOrder ==
    \/ P2mStart
    \/ P2mCheckTake
    \/ P2mCheckPotential
    \/ P2mChunks
    \/ P2mMultipoleTake
    \/ P2mMultipoleAdd
    \/ P2mReturnAnyOrder
    \/ M2mStart
    \/ M2mTake
    \/ M2mAdd
    \/ M2mReturnAnyOrder

\* The upward pass on a uniform tree, the levels of m2m in any order.
SpecFmmOrder == InitFmmOrder /\ [][NextFmmOrder]_vars

\* The index maps of a tree over the keys ks: complete, or with one key
\* missing from the per-level map or from key_to_index.
IndexMaps(ks) ==
    { << ks, ks >> }
        \cup { << ks \ { q }, ks >> : q \in ks }
        \cup { << ks, ks \ { q } >> : q \in ks }

\* A data tree whose index maps may lack a key of the tree.
InitFmmLookup ==
    /\ ScaleIdle
    /\ MapIdle
    /\ order = 6
    /\ SvdIdle
    /\ FftIdle
    /\ ResIdle
    /\ depth \in MaxDepths
    /\ \E S \in { L \in LeafSets(depth) : Cardinality(L) <= MaxLookupLeaves } :
          /\ leaves = LevelKeys(S, depth, depth)
          /\ keys = KeysFrom(S, depth, 0)
          /\ charge_index_pointer = ChargeIndexPointer(S, S)
          /\ charges = Charges(S, depth)
          /\ coordinates = Coordinates(S, depth)
    /\ \E maps \in IndexMaps({ keys[i] : i \in 1 .. Len(keys) }) :
          /\ level_index_pointer = maps[1]
          /\ key_to_index = maps[2]
    /\ check_potentials = << >>
    /\ multipoles = [i \in 1 .. Len(keys) |-> EmptyBag]
    /\ fmm_pc = "start"
    /\ level = 0
    /\ chunk_size = 0
    /\ task_count = 0
    /\ task_next = 0
    /\ running = {}
    /\ parent_targets = << >>
    /\ pass_log = << >>
    /\ kernel_calls = {}
    /\ multipoles_before = multipoles
    /\ write_count = [i \in 1 .. Len(keys) |-> 0]
    /\ locals = [i \in 1 .. Len(keys) |-> 0]

\* The FMM loop on a data tree whose index maps may lack a key.
SpecFmmLookup == InitFmmLookup /\ [][NextFmm]_vars

\* --------------------------------------- SourceTranslation for FmmDataAdaptive
\* FmmDataAdaptive::p2m, first loop: the check potential of leaf i (from 1).
AdaptiveCheckPotential(i) ==
    IF NSources(charge_index_pointer[i]) > 0 THEN SetToBag({ leaves[i] }) ELSE EmptyBag

\* FmmDataAdaptive::p2m, second loop: the items n .. last of the chunks, one
\* after the other, each added through the multipole pointer of its leaf.
RECURSIVE AdaptiveP2mFrom(_, _, _)
AdaptiveP2mFrom(mp, n, last) ==
    IF n > last
    THEN mp
    ELSE AdaptiveP2mFrom(
             [mp EXCEPT ![KeyToIndex(leaves[n]) + 1] = @ (+) AdaptiveCheckPotential(n)],
             n + 1, last)

\* FmmDataAdaptive::p2m on the multipoles mp: par_chunks_exact keeps the
\* chunks that are whole.
AdaptiveP2m(mp) ==
    LET nleaves == Len(leaves)
        cs == FindChunkSize(nleaves, P2M_MAX_CHUNK_SIZE)
        nchunks == nleaves \div cs
    IN AdaptiveP2mFrom(mp, 1, nchunks * cs)

\* The sum of the nsiblings multipoles of mp after slot first.
RECURSIVE AdaptiveSiblingSum(_, _, _)
AdaptiveSiblingSum(mp, first, n) ==
    IF n = 0 THEN EmptyBag ELSE AdaptiveSiblingSum(mp, first, n - 1) (+) mp[first + n]

\* FmmDataAdaptive::m2m, the parallel loop: the items n .. last of the
\* chunks, one after the other; src holds the child multipoles.
RECURSIVE AdaptiveM2mFrom(_, _, _, _, _, _)
AdaptiveM2mFrom(mp, src, parents, min_idx, n, last) ==
    IF n > last
    THEN mp
    ELSE AdaptiveM2mFrom(
             [mp EXCEPT ![KeyToIndex(parents[n]) + 1] =
                 @ (+) AdaptiveSiblingSum(src, min_idx + (n - 1) * 8, 8)],
             src, parents, min_idx, n + 1, last)

\* FmmDataAdaptive::m2m(lvl) on the multipoles mp.
AdaptiveM2m(mp, lvl) ==
    LET child_sources == GetKeys(lvl)
        parents == SortKeys({ Parent(child_sources[i]) : i \in 1 .. Len(child_sources) })
        nparents == Len(parents)
        min_idx == KeyToIndex(child_sources[1])
        max_idx == KeyToIndex(child_sources[Len(child_sources)])
        cs == FindChunkSize(nparents, Min(nparents, M2M_MAX_CHUNK_SIZE))
        nchunks == Min((max_idx + 1 - min_idx) \div (8 * cs), nparents \div cs)
    IN IF Len(child_sources) = 0
       THEN mp
       ELSE AdaptiveM2mFrom(mp, mp, parents, min_idx, 1, nchunks * cs)

\* ------------------------------------------------------------- m2l_scale
\* The value for level 2 read as a power of two of the level, as for the
\* levels below it: 2^(level - 2).
M2lScaleExponentUnshifted(lvl) == IF lvl = 2 THEN -1 ELSE lvl - 2

\* The value returned for a level >= 2, by its exponent: 1. / 2. = 2^-1 for
\* level 2, and 2_f64.powf((level - 3) as f64) otherwise.
M2lScaleExponent(lvl) == IF lvl = 2 THEN -1 ELSE lvl - 3

\* fn m2l_scale(level: u64) -> f64: a panic, or the value.
M2lScale(lvl) ==
    IF lvl < 2
    THEN [panic |-> TRUE, value |-> NoValue]
    ELSE [panic |-> FALSE, value |-> Pow2(M2lScaleExponent(lvl))]

ScaleLevels == 0 .. MaxScaleLevel

InitScale ==
    /\ MapIdle
    /\ order = 6
    /\ SvdIdle
    /\ FftIdle
    /\ FmmIdle
    /\ ResIdle
    /\ scale_level \in ScaleLevels
    /\ scale_pc = "start"
    /\ scale_value = NoValue

\* let scale = m2l_scale(level);
M2lScaleCall ==
    /\ scale_pc = "start"
    /\ LET r == M2lScale(scale_level)
       IN /\ scale_pc' = IF r.panic THEN "panic" ELSE "returned"
          /\ scale_value' = r.value
    /\ UNCHANGED << order, svdVars, fftVars, fmmVars, resVars, mapVars, scale_level >>

NextScale == M2lScaleCall

SpecScale == InitScale /\ [][NextScale]_vars

\* ------------------------------------------------- potentials per point
\* The potential at the caller's point j: a label that is nonzero and
\* different for every point.
PotentialAt(j) == j + 1

\* The permutations of 0 .. n-1, as sequences.
IndexPermutations(n) ==
    { f \in [1 .. n -> 0 .. n - 1] : \A a, b \in 1 .. n : f[a] = f[b] => a = b }

\* SingleNodeTree::new: the global indices 0 .. n-1 handed in, permuted into
\* Morton order of the points (points of the same leaf in any order).
MortonSorted(point_keys) ==
    { f \in IndexPermutations(Len(point_keys)) :
        \A a, b \in 1 .. Len(point_keys) :
            a < b => point_keys[f[a] + 1] <= point_keys[f[b] + 1] }

\* The entry written in iteration i: the identity instead of indices[i].
ScatterTargetIdentity(indices, i) == i

\* The entry of the result written in iteration i of the loop over
\* indices.iter().enumerate().
ScatterTarget(indices, i) == indices[i + 1]

InitRes ==
    /\ ScaleIdle
    /\ MapIdle
    /\ order = 6
    /\ SvdIdle
    /\ FftIdle
    /\ FmmIdle
    /\ npoints \in 1 .. MaxPoints
    /\ point_key \in UNION { [1 .. n -> 0 .. MaxPointKey] : n \in 1 .. MaxPoints }
    /\ Len(point_key) = npoints
    /\ global_indices = << >>
    /\ potentials = << >>
    /\ fmm_result = << >>
    /\ nwritten = << >>
    /\ res_pc = "start"
    /\ res_i = 0

\* SingleNodeTree::new(points, ..., &global_idxs, ...) with global_idxs = 0..nqpts.
ResTreeNew ==
    /\ res_pc = "start"
    /\ global_indices' \in MortonSorted(point_key)
    /\ res_pc' = "tree"
    /\ UNCHANGED << order, svdVars, fftVars, fmmVars, scaleVars, mapVars, npoints, point_key,
                    potentials, fmm_result, nwritten, res_i >>

\* datatree.run(false): one potential per point, in the order of the tree.
ResRun ==
    /\ res_pc = "tree"
    /\ potentials' = [i \in 1 .. Len(global_indices) |-> PotentialAt(global_indices[i])]
    /\ res_pc' = "ran"
    /\ UNCHANGED << order, svdVars, fftVars, fmmVars, scaleVars, mapVars, npoints, point_key,
                    global_indices, fmm_result, nwritten, res_i >>

\* let mut fmm_result = rlst_dynamic_array2!(f64, [nqpts, 1]);
ResAlloc ==
    /\ res_pc = "ran"
    /\ fmm_result' = [j \in 1 .. npoints |-> 0]
    /\ nwritten' = [j \in 1 .. npoints |-> 0]
    /\ res_i' = 0
    /\ res_pc' = "scatter"
    /\ UNCHANGED << order, svdVars, fftVars, fmmVars, scaleVars, mapVars, npoints, point_key,
                    global_indices, potentials >>

\* One iteration of: for (i, j) in indices.iter().enumerate()
\*                       { *fmm_result.get_mut([*j, 0]).unwrap() = datatree.potentials[i]; }
ResScatter ==
    /\ res_pc = "scatter"
    /\ res_i < Len(global_indices)
    /\ LET j == ScatterTarget(global_indices, res_i)
       IN IF j < Len(fmm_result) /\ res_i < Len(potentials)
          THEN /\ fmm_result' = [fmm_result EXCEPT ![j + 1] = potentials[res_i + 1]]
               /\ nwritten' = [nwritten EXCEPT ![j + 1] = @ + 1]
               /\ res_i' = res_i + 1
               /\ UNCHANGED res_pc
          ELSE /\ res_pc' = "panic"
               /\ UNCHANGED << fmm_result, nwritten, res_i >>
    /\ UNCHANGED << order, svdVars, fftVars, fmmVars, scaleVars, mapVars, npoints, point_key,
                    global_indices, potentials >>

\* The loop over the indices ends.
ResDone ==
    /\ res_pc = "scatter"
    /\ res_i = Len(global_indices)
    /\ res_pc' = "done"
    /\ UNCHANGED << order, svdVars, fftVars, fmmVars, scaleVars, mapVars, npoints, point_key,
                    global_indices, potentials, fmm_result, nwritten, res_i >>

NextRes == ResTreeNew \/ ResRun \/ ResAlloc \/ ResScatter \/ ResDone

SpecRes == InitRes /\ [][NextRes]_vars

\* ------------------------------------------------------------------ claims
\* Half-open range of columns of c covered by a block.
ColStart(b) == b.top_left[2]
ColEnd(b) == b.top_left[2] + b.dim[2]

\* The shapes compute_m2l_operators returns for rank r.
ShapesOfRank(r) ==
    /\ operator_data.u = << SvdNcoeffs(order), r >>
    /\ operator_data.st_block = << r, SvdNcoeffs(order) >>
    /\ operator_data.c = << r, r * transfer_vectors >>

\* C1: a requested rank Some(k) with k > ncoeffs(order) never makes new fail;
\* the rank in effect is ncoeffs(order) and u, st_block and c get the shapes
\* (ncoeffs, ncoeffs), (ncoeffs, ncoeffs) and (ncoeffs, ncoeffs * ntransfer_vectors).
C1_OversizedRankClamped ==
    (k_arg.some /\ k_arg.val > SvdNcoeffs(order)) =>
        /\ svd_pc # "panic"
        /\ svd_pc # "start" => k = SvdNcoeffs(order)
        /\ svd_pc = "done" =>
              /\ operator_data.u = << SvdNcoeffs(order), SvdNcoeffs(order) >>
              /\ operator_data.st_block = << SvdNcoeffs(order), SvdNcoeffs(order) >>
              /\ operator_data.c = << SvdNcoeffs(order), SvdNcoeffs(order) * NTransferVectors >>

C1_Witness ==
    /\ svd_pc = "done"
    /\ k_arg.some
    /\ k_arg.val > SvdNcoeffs(order)

\* C2: whatever the rank argument, the rank stored by new never exceeds
\* ncoeffs(order), so the truncation never indexes past the singular values.
C2_RankNeverExceedsNcoeffs ==
    /\ svd_pc # "start" => k <= SvdNcoeffs(order)
    /\ svd_pc # "panic"

C4_ZeroRankRejected ==
    (k_arg.some /\ k_arg.val = 0) => svd_pc # "done"

\* C5: for a rank k in effect with 1 <= k <= ncoeffs(order), u is (ncoeffs, k),
\* st_block is (k, ncoeffs), c is (k, k * T), the factor of transfer vector i
\* occupies exactly columns i*k .. (i+1)*k of c, and these slices are pairwise
\* disjoint and cover all columns of c.
C5_CompressedLayout ==
    (svd_pc = "done" /\ 1 <= k /\ k <= SvdNcoeffs(order)) =>
        /\ transfer_vectors = NTransferVectors
        /\ ShapesOfRank(k)
        /\ Len(c_blocks) = transfer_vectors
        /\ \A i \in 0 .. transfer_vectors - 1 :
              /\ ColStart(c_blocks[i + 1]) = i * k
              /\ ColEnd(c_blocks[i + 1]) = (i + 1) * k
              /\ c_blocks[i + 1].top_left[1] = 0
              /\ c_blocks[i + 1].dim[1] = operator_data.c[1]
        /\ \A i, j \in 0 .. transfer_vectors - 1 :
              i < j => \/ ColEnd(c_blocks[i + 1]) <= ColStart(c_blocks[j + 1])
                       \/ ColEnd(c_blocks[j + 1]) <= ColStart(c_blocks[i + 1])
        /\ \A col \in 0 .. operator_data.c[2] - 1 :
              LET i == col \div k
              IN /\ i < transfer_vectors
                 /\ ColStart(c_blocks[i + 1]) <= col
                 /\ col < ColEnd(c_blocks[i + 1])

C5_Witness ==
    /\ svd_pc = "done"
    /\ 1 < k
    /\ k < SvdNcoeffs(order)
    /\ Len(c_blocks) = NTransferVectors

\* C6: for every order >= 2 and every domain the FFT precomputation ends with
\* exactly 26 halo positions (all 26 neighbours of the parent of the centre key
\* are in the domain), each holding exactly 64 blocks of
\* size_real = p * p * (p / 2 + 1) entries, p = 2 * order, 64 * size_real in all.
C6_HaloPositionsAndBlocks ==
    order >= 2 =>
        /\ fft_pc # "panic"
        /\ fft_pc \notin {"idle"} =>
              /\ Len(halo) = 26
              /\ Cardinality({ halo[i] : i \in 1 .. Len(halo) }) = 26
              /\ size_real = (2 * order) * (2 * order) * ((2 * order) \div 2 + 1)
        /\ fft_pc \in {"flattened", "done"} =>
              /\ Len(kernel_data) = 26
              /\ \A i \in 1 .. Len(kernel_data) :
                    /\ Len(kernel_data_vec[i]) = 64
                    /\ \A j \in 1 .. 64 : BlockLen(kernel_data_vec[i][j]) = size_real
                    /\ Len(kernel_data[i]) = 64 * size_real

C6_Witness ==
    /\ fft_pc = "done"
    /\ order >= 2
    /\ Len(kernel_data) = 26
    /\ \E i \in 1 .. 26 : \E j \in 1 .. 64 : kernel_data_vec[i][j].zero
    /\ \E i \in 1 .. 26 : \E j \in 1 .. 64 : ~kernel_data_vec[i][j].zero

\* C7: for every halo position h, frequency f, halo child c and sibling s,
\* kernel_data_rearranged[h][f*64 + c*8 + s] = kernel_data[h][s*8*size_real + c*size_real + f];
\* the original holds, sibling major, then halo child, then frequency, the
\* coefficients of the kernel of (sibling s, halo child c).
C7_RearrangedLayout ==
    fft_pc = "done" =>
        \A h \in 0 .. Len(kernel_data) - 1 :
            /\ Len(kernel_data_rearranged[h + 1]) = 64 * size_real
            /\ \A f \in 0 .. size_real - 1 : \A cc \in 0 .. 7 : \A s \in 0 .. 7 :
                  /\ kernel_data_rearranged[h + 1][f * 64 + cc * 8 + s + 1]
                        = kernel_data[h + 1][s * 8 * size_real + cc * size_real + f + 1]
                  /\ kernel_data[h + 1][s * 8 * size_real + cc * size_real + f + 1]
                        = DataAt(kernel_data_vec[h + 1][s * 8 + cc + 1], h, s * 8 + cc, f)
                  /\ targets[h + 1][s * 8 + cc + 1] = siblings[s + 1]
                  /\ sources[h + 1][s * 8 + cc + 1] = halo_children[h + 1][cc + 1]

C7_Witness ==
    /\ fft_pc = "done"
    /\ Len(kernel_data_rearranged) = 26
    /\ \E h \in 1 .. 26 : \E n \in 1 .. 64 * size_real :
          /\ kernel_data_rearranged[h][n] # 0
          /\ kernel_data_rearranged[h][n] # kernel_data[h][n]

\* C8: for every order >= 1 the ncoeffs of the SVD provider and of the FFT
\* provider are both 6 * (order - 1)^2 + 2, and they agree with the surface
\* sizes used inside the FFT precomputation.
C8_NcoeffsAgree ==
    /\ \A o \in 1 .. MaxSvdOrder :
          /\ SvdNcoeffs(o) = 6 * (o - 1) * (o - 1) + 2
          /\ FftNcoeffs(o) = 6 * (o - 1) * (o - 1) + 2
          /\ NSourceEquivalentSurface(o) = SvdNcoeffs(o)
    /\ fft_pc \in {"kernels", "flattened", "done"} =>
          /\ n_source_equivalent_surface = FftNcoeffs(order)
          /\ n_source_equivalent_surface = SvdNcoeffs(order)
          /\ n_target_check_surface = n_source_equivalent_surface
          /\ n_source_equivalent_surface = 6 * (order - 1) * (order - 1) + 2

C8_Witness ==
    /\ fft_pc = "kernels"
    /\ n_source_equivalent_surface = FftNcoeffs(order)
    /\ n_source_equivalent_surface > 2

\* C9: after the run there is exactly one potential per original point:
\* global_indices is a permutation of 0..N, and writing potential i to entry
\* global_indices[i] gives every original index exactly one value, the
\* potential of that point, none written twice and none left unset.
C9_PotentialsInCallerOrder ==
    /\ res_pc # "panic"
    /\ res_pc \in {"tree", "ran", "scatter", "done"} =>
          /\ Len(global_indices) = npoints
          /\ { global_indices[i] : i \in 1 .. Len(global_indices) } = 0 .. npoints - 1
    /\ res_pc \in {"ran", "scatter", "done"} => Len(potentials) = npoints
    /\ res_pc \in {"scatter", "done"} =>
          /\ Len(fmm_result) = npoints
          /\ \A j \in 1 .. npoints : nwritten[j] <= 1
    /\ res_pc = "done" =>
          \A j \in 0 .. npoints - 1 :
              /\ nwritten[j + 1] = 1
              /\ fmm_result[j + 1] = PotentialAt(j)

C9_Witness ==
    /\ res_pc = "done"
    /\ npoints >= 3
    /\ \E i \in 1 .. npoints : global_indices[i] # i - 1
    /\ \A j \in 0 .. npoints - 1 : fmm_result[j + 1] = PotentialAt(j)

\* The passes of a tree of depth d, in the order of the loop.
UpwardOrder(d) ==
    << [pass |-> "p2m", level |-> d] >>
        \o [i \in 1 .. d |-> [pass |-> "m2m", level |-> d + 1 - i]]

PassOrder(d) ==
    UpwardOrder(d)
        \o [i \in 1 .. d - 1 |-> [pass |-> "downward", level |-> i + 1]]
        \o << [pass |-> "leaf", level |-> d] >>

\* The ancestor of a key at level lvl.
RECURSIVE AncestorAt(_, _)
AncestorAt(key_, lvl) == IF key_[1] <= lvl THEN key_ ELSE AncestorAt(Parent(key_), lvl)

\* What p2m leaves in the multipole of leaf i: its own expansion, nothing if
\* it holds no point.
LeafExpansion(i) ==
    IF charge_index_pointer[i][2] > charge_index_pointer[i][1]
    THEN SetToBag({ leaves[i] })
    ELSE EmptyBag

\* The expansions of the occupied leaves below a key, each once.
ExpansionsBelow(q) ==
    SetToBag({ leaves[i] : i \in { n \in 1 .. Len(leaves) :
                  /\ AncestorAt(leaves[n], q[1]) = q
                  /\ charge_index_pointer[n][2] > charge_index_pointer[n][1] } })

\* Every parent of the tree has its 8 children.
EveryBoxFull == Len(leaves) = 8 ^ depth

\* C10: for a tree of depth D the passes begin in the order P2M, M2M for the
\* levels D down to 1, the downward passes for the levels 2..D, then the leaf
\* pass; no item of an earlier pass is still in flight when a later one has
\* begun; once any M2M has begun every leaf multipole holds what P2M adds to
\* it; once M2M of a level has begun, the multipoles of that level are final.
C10_PassesInOrder ==
    fmm_pc # "idle" =>
        /\ fmm_pc # "panic"
        /\ Len(pass_log) <= Len(PassOrder(depth))
        /\ \A n \in 1 .. Len(pass_log) : pass_log[n] = PassOrder(depth)[n]
        /\ \A t \in running :
              /\ pass_log # << >>
              /\ pass_log[Len(pass_log)] = [pass |-> t.pass, level |-> t.level]
        /\ Len(pass_log) >= 2 =>
              \A i \in 1 .. Len(leaves) :
                  multipoles[KeyToIndex(leaves[i]) + 1] = LeafExpansion(i)
        /\ EveryBoxFull =>
              \A n \in 2 .. Len(pass_log) :
                  pass_log[n].pass = "m2m" =>
                      \A s \in 1 .. Len(keys) :
                          keys[s][1] >= pass_log[n].level =>
                              multipoles[s] = ExpansionsBelow(keys[s])
        /\ fmm_pc = "done" => pass_log = PassOrder(depth)

C10_Witness ==
    /\ depth >= 2
    /\ EveryBoxFull
    /\ \E t \in running : t.pass = "m2m" /\ t.level < depth
    /\ \E i \in 1 .. Len(leaves) : LeafExpansion(i) = EmptyBag


\* The leaves whose range of points is empty, by index from 1.
EmptyLeaves ==
    { i \in 1 .. Len(leaves) : charge_index_pointer[i][1] = charge_index_pointer[i][2] }

\* The pass begun last.
LastPass == pass_log[Len(pass_log)]

\* The place of leaf i among the keys: the leaves are the last keys, in the
\* same order.
LeafSlot(i) == Len(keys) - Len(leaves) + i

\* C11: in P2M, for a leaf whose range of points is empty no kernel is
\* evaluated and nothing faults; its check potential stays zero, the chunk
\* that holds it adds zero to its multipole, and the multipole is what it was
\* when p2m was called.
C11_EmptyLeavesUntouched ==
    fmm_pc # "idle" =>
        /\ fmm_pc # "panic"
        /\ \A call \in kernel_calls :
              charge_index_pointer[call.leaf + 1][1] # charge_index_pointer[call.leaf + 1][2]
        /\ \A i \in 1 .. Len(leaves) :
              charge_index_pointer[i][1] = charge_index_pointer[i][2] =>
                  /\ keys[LeafSlot(i)] = leaves[i]
                  /\ check_potentials # << >> => check_potentials[i] = EmptyBag
                  /\ \A t \in running :
                        (t.pass = "p2m" /\ t.stage = 2) =>
                            \A n \in 1 .. Len(t.ptrs) :
                                t.ptrs[n] + 1 = LeafSlot(i) => t.tmp[n] = EmptyBag
                  /\ (pass_log # << >> /\ LastPass.pass = "p2m") =>
                        multipoles[LeafSlot(i)] = multipoles_before[LeafSlot(i)]

C11_Witness ==
    /\ fmm_pc = "upward"
    /\ LastPass.pass = "p2m"
    /\ EmptyLeaves # {}
    /\ kernel_calls # {}
    /\ \E i \in EmptyLeaves : write_count[KeyToIndex(leaves[i]) + 1] = 1
    /\ \E i \in 1 .. Len(leaves) : multipoles[KeyToIndex(leaves[i]) + 1] # EmptyBag


\* The sum of the multipoles of the keys of the tree that are children of q,
\* among the first n keys.
RECURSIVE ChildrenSum(_, _)
ChildrenSum(q, n) ==
    IF n = 0
    THEN EmptyBag
    ELSE IF keys[n][1] = q[1] + 1 /\ Parent(keys[n]) = q
         THEN ChildrenSum(q, n - 1) (+) multipoles[n]
         ELSE ChildrenSum(q, n - 1)

\* The number of children of q that are keys of the tree.
NChildren(q) ==
    Cardinality({ n \in 1 .. Len(keys) : keys[n][1] = q[1] + 1 /\ Parent(keys[n]) = q })

\* m2m(level) has returned and nothing was called since.
M2mReturned == fmm_pc = "upward" /\ pass_log # << >> /\ LastPass.pass = "m2m"

\* C12: when m2m(level) has returned, every parent at level-1 that has
\* between 1 and 8 of its children among the keys of `level` holds what it
\* held before plus the translation of exactly its own existing children's
\* multipoles.
C12_PartialChildrenTolerated ==
    M2mReturned =>
        \A s \in 1 .. Len(keys) :
            (keys[s][1] = LastPass.level - 1 /\ NChildren(keys[s]) \in 1 .. 8) =>
                multipoles[s] = multipoles_before[s] (+) ChildrenSum(keys[s], Len(keys))


\* C13: m2l_scale panics for every level < 2; for level 2 it returns 1/2 and
\* for every level >= 3 it returns 2^(level-3), so for every level >= 2 the
\* value is 2^(level-3) and the value of level+1 is twice that of level.
C13_M2lScale ==
    scale_pc \in {"returned", "panic"} =>
        /\ scale_level < 2 <=> scale_pc = "panic"
        /\ scale_pc = "panic" => scale_value = NoValue
        /\ scale_level = 2 => scale_value = Pow2(-1)
        /\ scale_level >= 2 =>
              /\ scale_value = Pow2(scale_level - 3)
              /\ ~M2lScale(scale_level + 1).panic
              /\ M2lScale(scale_level + 1).value = Pow2(scale_value.exp + 1)

C13_Witness ==
    /\ scale_pc = "returned"
    /\ scale_level >= 3
    /\ scale_value.exp > 0


\* The points of the tree, by their place in Morton order.
Points == 0 .. Len(charges) - 1

\* C14: the per-leaf half-open ranges of charge_index_pointer are pairwise
\* disjoint and their union is exactly 0..N: in the tree as built every point
\* of 0..N is in the range of exactly one leaf and no range leaves 0..N. P2M
\* slices every point into exactly one leaf: each kernel evaluation covers
\* the range of its own leaf, once, and when the first loop has returned every
\* point is covered by exactly one evaluation.
C14_RangesPartitionPoints ==
    /\ fmm_pc # "panic"
    /\ fmm_pc = "start" =>
          /\ \A i \in 1 .. Len(leaves) :
                /\ charge_index_pointer[i][1] <= charge_index_pointer[i][2]
                /\ charge_index_pointer[i][2] <= Len(charges)
          /\ \A pt \in Points :
                Cardinality({ i \in 1 .. Len(leaves) :
                                pt \in Slice(charge_index_pointer[i]) }) = 1
    /\ \A call \in kernel_calls :
          /\ call.points = Slice(charge_index_pointer[call.leaf + 1])
          /\ CopiesIn(leaves[call.leaf + 1], check_potentials[call.leaf + 1]) = 1
    /\ (fmm_pc = "p2m_mult" /\ task_next = 0) =>
          \A pt \in Points :
              Cardinality({ call \in kernel_calls : pt \in call.points }) = 1

C14_Witness ==
    /\ fmm_pc = "p2m_mult"
    /\ Len(charges) >= 3
    /\ EmptyLeaves # {}
    /\ \E call \in kernel_calls : Cardinality(call.points) = 2
    /\ \E call \in kernel_calls : Cardinality(call.points) = 1


\* The cells of the next level that make up the volume of a key.
CellsOf(key_) ==
    { << key_[1] + 1, 2 * key_[2] + a, 2 * key_[3] + b, 2 * key_[4] + d >> :
        a, b, d \in { 0, 1 } }

\* The keys a sequence holds.
Range(sq) == { sq[n] : n \in 1 .. Len(sq) }

\* children(k) is 8 distinct keys of the next level that tessellate k, k is
\* the parent of each, and the siblings of each are those 8 keys.
FamilyOf(key_) ==
    LET ch == Children(key_)
    IN /\ Len(ch) = 8
       /\ Cardinality(Range(ch)) = 8
       /\ Range(ch) = CellsOf(key_)
       /\ \A n \in 1 .. 8 :
             /\ ch[n][1] = key_[1] + 1
             /\ Parent(ch[n]) = key_
             /\ Len(Siblings(ch[n])) = 8
             /\ Range(Siblings(ch[n])) = Range(ch)
             /\ ch[n] \in Range(Siblings(ch[n]))

\* C15: for the keys the precomputation handles (the parent of the centre key
\* and its ancestors, and every halo key), children(k) returns exactly 8
\* distinct keys at level(k)+1 whose cells tessellate k, parent(c) = k for
\* each child c, and siblings(c) is exactly that set of 8 keys, c included;
\* the siblings and halo children the precomputation holds are those keys.
C15_ChildrenParentSiblings ==
    fft_pc # "idle" =>
        /\ FamilyOf(Parent(key))
        /\ FamilyOf(Parent(Parent(key)))
        /\ FamilyOf(Parent(Parent(Parent(key))))
        /\ siblings = Children(Parent(key))
        /\ key \in Range(siblings)
        /\ \A n \in 1 .. Len(halo) :
              /\ FamilyOf(halo[n])
              /\ halo_children[n] = Children(halo[n])

C15_Witness ==
    /\ fft_pc = "done"
    /\ Len(halo) = 26
    /\ Cardinality(UNION { Range(halo_children[n]) : n \in 1 .. Len(halo) }) = 208
    /\ key \notin { siblings[1], siblings[8] }


\* The slots of multipoles a task in flight adds to.
WriteSlots(t) == Range(t.ptrs)

\* The tasks in flight of the second loop of p2m.
P2mChunkTasks == { t \in running : t.pass = "p2m" /\ t.stage = 2 }

\* C18: in the second parallel loop of P2M no two tasks write the same
\* multipole slot: the leaf multipole pointers name distinct slots, the chunks
\* in flight at the same time share none of them, every pointer is in exactly
\* one chunk (when p2m has returned every leaf slot was added to by exactly
\* one chunk and no other slot by any), so whatever the interleaving no two
\* writes to a slot are concurrent.
C18_P2mChunksDisjoint ==
    /\ (fmm_pc = "p2m_mult" /\ task_next = 0) =>
          \A i, j \in 1 .. Len(leaves) :
              i # j => KeyToIndex(leaves[i]) # KeyToIndex(leaves[j])
    /\ \A t \in P2mChunkTasks :
          /\ Cardinality(WriteSlots(t)) = Len(t.ptrs)
          /\ \A other \in P2mChunkTasks \ { t } : WriteSlots(t) \cap WriteSlots(other) = {}
    /\ (pass_log # << >> /\ LastPass.pass = "p2m") =>
          /\ \A s \in 1 .. Len(write_count) : write_count[s] <= 1
          /\ fmm_pc = "upward" =>
                \A s \in 1 .. Len(write_count) :
                    write_count[s] = IF keys[s][1] = depth THEN 1 ELSE 0

C18_Witness ==
    /\ fmm_pc = "p2m_mult"
    /\ Cardinality(P2mChunkTasks) >= 2
    /\ \A t \in P2mChunkTasks : Len(t.ptrs) >= 2
    /\ \E s \in 1 .. Len(write_count) : write_count[s] = 1


\* The tasks in flight of the parallel loop of m2m.
M2mTasks == { t \in running : t.pass = "m2m" }

\* No two m2m tasks in flight write the same slot, and none reads a slot that
\* one of them writes: the slots read hold keys of the level, the slots
\* written hold keys of the level above.
M2mRaceFree ==
    \A t \in M2mTasks :
        /\ Cardinality(WriteSlots(t)) = Len(t.ptrs)
        /\ \A s \in t.reads : keys[s + 1][1] = t.level
        /\ \A s \in WriteSlots(t) : keys[s + 1][1] = t.level - 1
        /\ \A other \in M2mTasks :
              /\ other # t => WriteSlots(t) \cap WriteSlots(other) = {}
              /\ t.reads \cap WriteSlots(other) = {}

\* C19: in m2m(level) the parent targets are deduplicated, so each parent's
\* multipole is written by exactly one parallel task (never by two while the
\* pass runs, and by one when it has returned), and the slots any task reads
\* are disjoint from the slots any task writes; no write-write or read-write
\* race on the multipoles is reachable.
C19_ParentsWrittenOnce ==
    /\ M2mRaceFree
    /\ (pass_log # << >> /\ LastPass.pass = "m2m") =>
          /\ \A s \in 1 .. Len(write_count) : write_count[s] <= 1
          /\ M2mReturned =>
                \A s \in 1 .. Len(keys) :
                    write_count[s] =
                        IF keys[s][1] = LastPass.level - 1 /\ NChildren(keys[s]) >= 1
                        THEN 1
                        ELSE 0


\* p2m() has returned and nothing was called since.
P2mReturned == fmm_pc = "upward" /\ pass_log # << >> /\ LastPass.pass = "p2m"

\* C20: P2M and M2M only sum into the multipoles: when p2m() has returned
\* each leaf multipole is what it was before the call plus the expansion of
\* the leaf, and when m2m(level) has returned each parent multipole is what it
\* was before the call plus the translated multipoles of its children; a
\* second call of the same pass adds the same contribution a second time.
C20_PassesAccumulate ==
    /\ P2mReturned =>
          \A i \in 1 .. Len(leaves) :
              LET s == KeyToIndex(leaves[i]) + 1
              IN multipoles[s] = multipoles_before[s] (+) LeafExpansion(i)
    /\ M2mReturned =>
          \A s \in 1 .. Len(keys) :
              keys[s][1] = LastPass.level - 1 =>
                  multipoles[s] = multipoles_before[s] (+) ChildrenSum(keys[s], Len(keys))


\* The keys of level lvl, as a set.
KeysAt(lvl) == { keys[s] : s \in { n \in 1 .. Len(keys) : keys[n][1] = lvl } }

\* Every parent of a key of level lvl has its 8 children among the keys.
FullFamiliesAt(lvl) ==
    \A q \in KeysAt(lvl) : Range(Siblings(q)) \subseteq KeysAt(lvl)

\* The keys of level lvl hold consecutive slots, in Morton order.
ContiguousSortedAt(lvl) ==
    \A s, r \in 1 .. Len(keys) :
        (keys[s][1] = lvl /\ keys[r][1] = lvl /\ s < r) =>
            /\ Morton(keys[s]) < Morton(keys[r])
            /\ \A n \in s .. r : keys[n][1] = lvl

\* The pairing C21 is about holds for level lvl.
PairedAt(lvl) == lvl >= 1 /\ FullFamiliesAt(lvl) /\ ContiguousSortedAt(lvl)

\* C21: in m2m(level), when every parent of the keys of `level` has its 8
\* children and those keys hold a contiguous Morton-sorted range of slots, the
\* i-th parent in sorted order is paired with the i-th block of 8 consecutive
\* child multipoles, those 8 slots hold exactly the children of that parent,
\* the chunk size divides the number of parents, the chunks cover every
\* parent, and when the pass has returned every parent was added to exactly
\* once, with the sum of its own 8 children.
C21_ParentsPairedWithOwnChildren ==
    /\ \A t \in M2mTasks :
          PairedAt(t.level) =>
              \A j \in 1 .. Len(t.ptrs) :
                  LET n == t.idx * chunk_size + j
                      first == MinIdx(t.level) + (n - 1) * 8
                  IN /\ n <= Len(parent_targets)
                     /\ keys[t.ptrs[j] + 1] = parent_targets[n]
                     /\ [m \in 1 .. 8 |-> keys[first + m]] = Children(parent_targets[n])
                     /\ { first + m - 1 : m \in 1 .. 8 } \subseteq t.reads
                     /\ t.tmp[j] = ChildrenSum(parent_targets[n], Len(keys))
    /\ (fmm_pc = "m2m" /\ PairedAt(level)) =>
          /\ Len(parent_targets) % chunk_size = 0
          /\ task_count * chunk_size = Len(parent_targets)
          /\ Range(parent_targets) = KeysAt(level - 1)
    /\ (M2mReturned /\ PairedAt(LastPass.level)) =>
          \A s \in 1 .. Len(keys) :
              /\ write_count[s] = IF keys[s][1] = LastPass.level - 1 THEN 1 ELSE 0
              /\ keys[s][1] = LastPass.level - 1 =>
                    multipoles[s] = multipoles_before[s] (+) ChildrenSum(keys[s], Len(keys))

C21_Witness ==
    /\ M2mReturned
    /\ PairedAt(LastPass.level)
    /\ ~EveryBoxFull
    /\ Len(parent_targets) = 2
    /\ chunk_size = 2
    /\ \E s \in 1 .. Len(keys) : write_count[s] = 1 /\ multipoles[s] # EmptyBag


\* C22: p2m() updates the multipole of every leaf exactly once. For every
\* number of leaves n >= 1 the chunk size find_chunk_size(n, P2M_MAX_CHUNK_SIZE)
\* divides n, so the zipped chunks of the check potentials, of the leaf
\* multipole pointers and of the scales cover all n leaves, none dropped and
\* none twice; the check potential of leaf i is combined with the scale of
\* leaf i and added to the multipole of leaf i.
C22_P2mEveryLeafOnce ==
    /\ fmm_pc = "start" =>
          \A n \in 1 .. MaxLeaves :
              /\ FindChunkSize(n, P2M_MAX_CHUNK_SIZE) \in 1 .. P2M_MAX_CHUNK_SIZE
              /\ n % FindChunkSize(n, P2M_MAX_CHUNK_SIZE) = 0
    /\ fmm_pc = "p2m_mult" =>
          /\ chunk_size = FindChunkSize(Len(leaves), P2M_MAX_CHUNK_SIZE)
          /\ Len(leaves) % chunk_size = 0
          /\ task_count * chunk_size = Len(leaves)
    /\ \A t \in P2mChunkTasks :
          /\ Len(t.ptrs) = chunk_size
          /\ \A j \in 1 .. Len(t.ptrs) :
                LET i == t.idx * chunk_size + j
                IN /\ i <= Len(leaves)
                   /\ t.ptrs[j] + 1 = LeafSlot(i)
                   /\ keys[LeafSlot(i)] = leaves[i]
                   /\ t.tmp[j] = check_potentials[i]
                   /\ t.scale[j] = i
    /\ P2mReturned =>
          /\ \A s \in 1 .. Len(keys) :
                write_count[s] = IF keys[s][1] = depth THEN 1 ELSE 0
          /\ \A i \in 1 .. Len(leaves) :
                multipoles[LeafSlot(i)] = multipoles_before[LeafSlot(i)] (+) LeafExpansion(i)

C22_Witness ==
    /\ P2mReturned
    /\ Len(leaves) = 5
    /\ chunk_size = 1
    /\ task_count = 5
    /\ \A i \in 1 .. Len(leaves) : write_count[LeafSlot(i)] = 1


\* The caller has passed every level once.
AllLevelsPassed ==
    /\ fmm_pc = "upward"
    /\ level = 0
    /\ Len(pass_log) = depth + 1

\* The occupied leaves of which the root holds nothing.
MissingFromRoot ==
    { i \in 1 .. Len(leaves) :
        LeafExpansion(i) # EmptyBag /\ CopiesIn(leaves[i], multipoles[1]) = 0 }

\* C23: from all-zero multipoles on a uniform tree of depth D, after p2m()
\* and m2m(D), m2m(D-1), ..., m2m(1) the multipole of every box, the root
\* included, holds exactly once the contribution of each leaf below it; when
\* the levels are passed once each in any other order, the contribution of
\* some leaf is missing from the root.
C23_BottomUpAggregates ==
    (EveryBoxFull /\ AllLevelsPassed) =>
        IF pass_log = UpwardOrder(depth)
        THEN /\ \A s \in 1 .. Len(keys) : multipoles[s] = ExpansionsBelow(keys[s])
             /\ MissingFromRoot = {}
             /\ \A i \in 1 .. Len(leaves) :
                   CopiesIn(leaves[i], multipoles[1]) = IF LeafExpansion(i) # EmptyBag THEN 1 ELSE 0
        ELSE MissingFromRoot # {}

C23_Witness ==
    /\ EveryBoxFull
    /\ AllLevelsPassed
    /\ depth >= 2
    /\ pass_log = UpwardOrder(depth)
    /\ BagCardinality(multipoles[1]) >= 32
    /\ EmptyLeaves # {}

\* The levels passed in another order: the root is left without a leaf.
C23_WitnessOtherOrder ==
    /\ EveryBoxFull
    /\ AllLevelsPassed
    /\ depth >= 2
    /\ pass_log # UpwardOrder(depth)
    /\ MissingFromRoot # {}


\* A step of p2m(): from its call to its return.
InP2m == fmm_pc \in { "start", "p2m_check", "p2m_mult" }

\* A step of m2m(level): from its call to its return.
InM2m == (fmm_pc = "upward" /\ fmm_pc' = "m2m") \/ fmm_pc = "m2m"

\* The slots of multipoles a step has changed.
ChangedSlots == { s \in 1 .. Len(multipoles) : multipoles'[s] # multipoles[s] }

\* What neither pass may touch: the local expansions, the charges, the
\* coordinates, the keys and index maps of the tree, the operator data.
FrameKept ==
    /\ Len(multipoles') = Len(multipoles)
    /\ locals' = locals
    /\ charges' = charges
    /\ coordinates' = coordinates
    /\ charge_index_pointer' = charge_index_pointer
    /\ keys' = keys
    /\ leaves' = leaves
    /\ level_index_pointer' = level_index_pointer
    /\ key_to_index' = key_to_index
    /\ depth' = depth
    /\ order' = order
    /\ svdVars' = svdVars
    /\ fftVars' = fftVars

\* C24: p2m() changes only the multipoles of leaf boxes, and m2m(level) only
\* the multipoles of boxes of level-1 that are parents of keys of `level`;
\* both leave alone the multipoles of every other box, the local expansions,
\* the charges, the point coordinates, the key and index maps of the tree and
\* the precomputed translation operator data.
C24_UpwardPassFrame ==
    [][ /\ InP2m =>
              /\ FrameKept
              /\ \A s \in ChangedSlots : keys[s][1] = depth
        /\ InM2m =>
              /\ FrameKept
              /\ \A s \in ChangedSlots :
                    keys[s][1] = level - 1 /\ NChildren(keys[s]) >= 1 ]_vars

C24_Witness ==
    /\ M2mReturned
    /\ depth = 2
    /\ LastPass.level = 1
    /\ CallsOf("p2m", depth) = 2
    /\ multipoles[1] # multipoles_before[1]
    /\ \A s \in 2 .. Len(keys) : multipoles[s] = multipoles_before[s]
    /\ \E s \in 2 .. Len(keys) : multipoles[s] # EmptyBag


\* Two boxes of one level touch: their closed cells [x, x+1] meet on every axis.
Touching(a, b) ==
    \A d \in 2 .. 4 : a[d] <= b[d] + 1 /\ b[d] <= a[d] + 1

\* The values kernel_data holds for the pair of sibling s and halo child cc
\* (both from 0) at halo position h (from 1).
StoredBlock(h, s, cc) ==
    [f \in 1 .. size_real |-> kernel_data[h][(s * 8 + cc) * size_real + f]]

\* C25: in the FFT precomputation, for each of the 26 halo positions and each
\* of the 64 (sibling, halo child) pairs, the block stored at position
\* sibling*8 + halo_child is the transformed kernel exactly when the halo
\* child is not adjacent to the sibling, and is otherwise a block of size_real
\* zeros; every halo child is a child of a neighbour of the parent of the
\* sibling, so being in the V list of the sibling is the same as not being
\* adjacent to it.
C25_KernelOrZeroBlock ==
    /\ fft_pc = "flattened" =>
          \A s \in 1 .. 8 :
              LET v_list == VList(siblings[s])
                  candidates == VListUnfiltered(siblings[s])
              IN \A h \in 1 .. Len(halo) : \A cc \in 1 .. 8 :
                    /\ halo_children[h][cc] \in candidates
                    /\ halo_children[h][cc] \in v_list
                          <=> ~Touching(siblings[s], halo_children[h][cc])
    /\ fft_pc \in { "flattened", "done" } =>
          /\ Len(halo) = 26
          /\ \A h \in 1 .. Len(halo) : \A s \in 0 .. 7 : \A cc \in 0 .. 7 :
                LET block == kernel_data_vec[h][s * 8 + cc + 1]
                    apart == ~Touching(siblings[s + 1], halo_children[h][cc + 1])
                IN /\ targets[h][s * 8 + cc + 1] = siblings[s + 1]
                   /\ sources[h][s * 8 + cc + 1] = halo_children[h][cc + 1]
                   /\ block.zero <=> ~apart
                   /\ BlockLen(block) = size_real
                   /\ Len(StoredBlock(h, s, cc)) = size_real
                   /\ \A f \in 1 .. size_real :
                         StoredBlock(h, s, cc)[f] =
                             IF apart THEN KernelHat(h - 1, s * 8 + cc, f - 1, size_real) ELSE 0

C25_Witness ==
    /\ fft_pc = "done"
    /\ \E h \in 1 .. 26 :
          /\ \E s, cc \in 0 .. 7 :
                /\ Touching(siblings[s + 1], halo_children[h][cc + 1])
                /\ \A f \in 1 .. size_real : StoredBlock(h, s, cc)[f] = 0
          /\ \E s, cc \in 0 .. 7 :
                /\ ~Touching(siblings[s + 1], halo_children[h][cc + 1])
                /\ \A f \in 1 .. size_real : StoredBlock(h, s, cc)[f] # 0


\* A lookup m2m(lvl) makes finds nothing: the parent of some key of the level
\* is missing from the index map of the level above, or the first or the last
\* key of the level is missing from key_to_index.
LookupMissing(lvl) ==
    LET child_sources == GetKeys(lvl)
    IN /\ child_sources # << >>
       /\ \/ \E i \in 1 .. Len(child_sources) :
                Parent(child_sources[i]) \notin level_index_pointer
          \/ child_sources[1] \notin key_to_index
          \/ child_sources[Len(child_sources)] \notin key_to_index

\* The step is the call of m2m(level).
M2mCalled == fmm_pc = "upward" /\ pass_log' # pass_log

\* C26: in m2m(level), if the parent of some key of `level` is missing from
\* the index map of level-1, or the first or last key of the level is missing
\* from key_to_index, the pass panics: it does not go on to the parallel loop,
\* it skips no box silently, it leaves the multipoles as they were, and no
\* step follows the panic (no recovery, no retry); with every lookup found
\* it does not panic.
C26_MissingLookupPanics ==
    [][ /\ fmm_pc # "panic"
        /\ M2mCalled =>
              /\ fmm_pc' = "panic" <=> LookupMissing(level)
              /\ fmm_pc' # "panic" => fmm_pc' = "m2m"
        /\ fmm_pc' = "panic" =>
              /\ M2mCalled
              /\ multipoles' = multipoles
              /\ running' = {}
              /\ task_next' = 0 ]_vars

C26_Witness ==
    /\ fmm_pc = "panic"
    /\ LastPass = [pass |-> "m2m", level |-> 1]
    /\ depth = 2
    /\ keys[1] \notin level_index_pointer
    /\ \A s \in 1 .. Len(keys) : write_count[s] = 0
    /\ \E s \in 1 .. Len(keys) : keys[s][1] = 1 /\ multipoles[s] # EmptyBag

\* The last key of a level missing from key_to_index: the pass panics too.
C26_WitnessKeyToIndex ==
    /\ fmm_pc = "panic"
    /\ LastPass.pass = "m2m"
    /\ level_index_pointer = { keys[i] : i \in 1 .. Len(keys) }
    /\ key_to_index # level_index_pointer


\* C27: the uniform and the adaptive data tree implement the same P2M and
\* M2M: on the same tree, charges and multipoles, when p2m() of the uniform
\* variant has returned the multipoles are those p2m() of the adaptive
\* variant leaves, and when m2m(level) of the uniform variant has returned
\* they are those m2m(level) of the adaptive variant leaves, after every pass
\* of the upward pass and whatever the interleaving of the workers.
C27_UniformAdaptiveAgree ==
    /\ P2mReturned => multipoles = AdaptiveP2m(multipoles_before)
    /\ M2mReturned => multipoles = AdaptiveM2m(multipoles_before, LastPass.level)

C27_Witness ==
    /\ M2mReturned
    /\ depth = 2
    /\ LastPass.level = 1
    /\ CallsOf("m2m", 2) = 2
    /\ multipoles # multipoles_before
    /\ multipoles = AdaptiveM2m(multipoles_before, 1)
    /\ BagCardinality(multipoles[1]) >= 16


\* The place in the rearranged vector of the value read for frequency f,
\* halo child cc and sibling s: the number of pushes before it.
PushIndex(f, cc, s) == f * 64 + cc * 8 + s

\* The place in the rearranged vector of index n of the original.
InverseIndex(n) ==
    PushIndex(n % size_real, (n \div size_real) % 8, n \div (8 * size_real))

\* C30: for every halo position the rearrangement of kernel_data into
\* kernel_data_rearranged is a permutation: the rearranged vector has the
\* same length 64 * size_real; (f, c, s) -> s*8*size_real + c*size_real + f
\* is one to one and onto 0 .. 64*size_real - 1, so every index of the
\* original is read exactly once; and the inverse index map gives the
\* original back, no element duplicated or lost.
C30_RearrangementIsPermutation ==
    fft_pc = "done" =>
        LET triples == (0 .. size_real - 1) \X (0 .. 7) \X (0 .. 7)
            read == { RearrangeIndex(t[3], t[2], t[1], size_real) : t \in triples }
        IN /\ read = 0 .. 64 * size_real - 1
           /\ Cardinality(read) = Cardinality(triples)
           /\ \A t \in triples :
                 InverseIndex(RearrangeIndex(t[3], t[2], t[1], size_real))
                     = PushIndex(t[1], t[2], t[3])
           /\ \A h \in 1 .. Len(kernel_data) :
                 /\ Len(kernel_data_rearranged[h]) = 64 * size_real
                 /\ Len(kernel_data_rearranged[h]) = Len(kernel_data[h])
                 /\ \A n \in 0 .. 64 * size_real - 1 :
                       kernel_data[h][n + 1] = kernel_data_rearranged[h][InverseIndex(n) + 1]

C30_Witness ==
    /\ fft_pc = "done"
    /\ Len(kernel_data) = 26
    /\ \E h \in 1 .. 26 :
          /\ kernel_data_rearranged[h] # kernel_data[h]
          /\ \E n \in 1 .. 64 * size_real : kernel_data[h][n] # 0
          /\ \E n \in 1 .. 64 * size_real : kernel_data[h][n] = 0


\* The grid points with every coordinate >= order-1 and at least one equal
\* to order-1 or 2*order-2, by convolution index.
SurfacePoints(o) ==
    LET n == 2 * o - 1
        side == (o - 1) .. (n - 1)
    IN { x + n * y + n * n * z : << x, y, z >> \in
            { t \in side \X side \X side :
                \E d \in 1 .. 3 : t[d] = o - 1 \/ t[d] = 2 * o - 2 } }

\* The two maps are inverses of each other.
MutualInverses ==
    /\ \A sf \in DOMAIN surf_to_conv_map :
          /\ surf_to_conv_map[sf] \in DOMAIN conv_to_surf_map
          /\ conv_to_surf_map[surf_to_conv_map[sf]] = sf
    /\ \A cv \in DOMAIN conv_to_surf_map :
          /\ conv_to_surf_map[cv] \in DOMAIN surf_to_conv_map
          /\ surf_to_conv_map[conv_to_surf_map[cv]] = cv

\* C28: for every order >= 2, compute_surf_to_conv_map(order) returns two
\* maps that are mutual inverses, whose surface indices are exactly
\* 0..ncoeffs(order)-1 with ncoeffs(order) = 6*(order-1)^2 + 2, whose
\* convolution indices all lie in 0..(2*order-1)^3 and grow strictly with the
\* surface index, and which hold exactly the grid points with all coordinates
\* >= order-1 and at least one coordinate equal to order-1 or 2*order-2.
C28_SurfConvMaps ==
    /\ map_pc # "idle" =>
          /\ MutualInverses
          /\ DOMAIN surf_to_conv_map = 0 .. surf_index - 1
    /\ map_pc \in { "maps", "signal" } =>
          /\ order >= 2
          /\ DOMAIN surf_to_conv_map = 0 .. (6 * (order - 1) * (order - 1) + 2) - 1
          /\ Cardinality(DOMAIN surf_to_conv_map) = FftNcoeffs(order)
          /\ \A cv \in DOMAIN conv_to_surf_map :
                0 <= cv /\ cv < (2 * order - 1) * (2 * order - 1) * (2 * order - 1)
          /\ \A sf, sg \in DOMAIN surf_to_conv_map :
                sf < sg => surf_to_conv_map[sf] < surf_to_conv_map[sg]
          /\ DOMAIN conv_to_surf_map = SurfacePoints(order)

C28_Witness ==
    /\ map_pc = "maps"
    /\ order >= 3
    /\ surf_index = FftNcoeffs(order)
    /\ \E cv \in 0 .. map_t - 1 : cv > surf_to_conv_map[0] /\ cv \notin DOMAIN conv_to_surf_map
    /\ \E sf \in DOMAIN surf_to_conv_map : surf_to_conv_map[sf] # sf

\* C29: for every order >= 2 and every charge vector of length
\* ncoeffs(order), compute_signal returns a grid of (2*order-1)^3 entries in
\* which the entry at surf_to_conv[s] is charges[s] for every surface index
\* s and every entry at a convolution index not in conv_to_surf is 0; read
\* back at the surf_to_conv indices the grid gives the charges.
C29_SignalOnGrid ==
    /\ map_pc # "panic"
    /\ map_pc = "signal" =>
          /\ Len(signal_charges) = FftNcoeffs(order)
          /\ DOMAIN signal = 0 .. (2 * order - 1) * (2 * order - 1) * (2 * order - 1) - 1
          /\ \A sf \in 0 .. FftNcoeffs(order) - 1 :
                signal[surf_to_conv_map[sf]] = signal_charges[sf + 1]
          /\ \A cv \in DOMAIN signal :
                cv \notin DOMAIN conv_to_surf_map => signal[cv] = 0
          /\ [s \in 1 .. FftNcoeffs(order) |-> signal[surf_to_conv_map[s - 1]]]
                = signal_charges

C29_Witness ==
    /\ map_pc = "signal"
    /\ order >= 3
    /\ \A s \in 1 .. Len(signal_charges) : signal_charges[s] = s + 1
    /\ \E cv \in DOMAIN signal : signal[cv] = 0
    /\ Cardinality({ signal[cv] : cv \in DOMAIN signal }) = FftNcoeffs(order) + 1

====
